---- MODULE Spec2Model ----
(***************************************************************************)
(* A model of the vimscript interpreter of rust-vim (crate `vimscript`):   *)
(* the line-by-line execution engine (run / run_inner / run_line), the     *)
(* scoped symbol table (NameSpaced), the values it computes with and the   *)
(* host operations that drive it.                                          *)
(*                                                                         *)
(* A script is a sequence of already split lines (Line::new has run); a    *)
(* name is a sequence of one-character strings so that the prefix dispatch *)
(* of Namespace::from_name is computed, not assumed.                       *)
(***************************************************************************)
EXTENDS Integers, Sequences, FiniteSets, TLC

VARIABLES
    phase,        \* "idle" | "running" | "evaluating" | "done" | "panicked"
    hostop,       \* the host entry point in progress: "none" | "run" | "eval"
    commands,     \* VimScriptCtx.commands: command name -> registered handler
    functions,    \* VimScriptCtx.functions: NameSpaced<Function>
    variables,    \* VimScriptCtx.variables: NameSpaced<Value>
    timeout,      \* VimScriptCtx.timeout: the deadline (an Instant)
    now,          \* the wall clock, Instant::now()
    stack,        \* the activations of run_inner, innermost last
    script,       \* the text handed to run, as lines
    result,       \* what run returned: "none" | "Ok" | the fault
    evalResult,   \* what eval returned
    calls,        \* the invocations of host-registered handlers, in order
    echoed,       \* what reached State::echo, in order
    fault,        \* the fault raised by the last step, and whether call/echo reported it
    last,         \* the line (or end of text) the last step met
    evals,        \* how many times the host called eval
    silence_level,\* VimScriptCtx.silence_level: the depth of `silent`
    silent,       \* the host's State: the last value handed to set_silent
    obs,          \* the last call of the host on the symbol table, and what it returned
    heap,         \* the containers behind the List values: address -> elements
    ledger        \* the writes of the host: how many (n), and what it stored and did
                  \* not remove (m): <<name, active id>> -> value

vars == <<phase, hostop, commands, functions, variables, timeout, now, stack,
          script, result, evalResult, calls, echoed, fault, last, evals,
          silence_level, silent, obs, heap, ledger>>

\* what a call on the symbol table leaves alone, and what a run leaves alone
runvars == <<phase, hostop, commands, timeout, now, stack, script, result,
             evalResult, calls, echoed, fault, last, evals, silence_level, silent>>
apivars == <<obs, heap, ledger>>

-----------------------------------------------------------------------------
(* Bounds of the model *)

\* the longest while loop of the script families counts to MaxN
MaxN == 3
\* the longest list a for loop of the script families iterates
MaxLen == 2
\* how many `call g:F()` lines follow a function definition
MaxCalls == 2
\* how many evaluations the host asks for after a run
MaxEvals == 1

\* Duration::from_secs(5), the budget of one run
Budget == 5
\* how far the clock is followed
MaxNow == 8

-----------------------------------------------------------------------------
(* Values (value.rs, enum Value) *)

VInt(i) == [ty |-> "Integer", n |-> i, l |-> <<>>, s |-> <<>>]
VNum(i) == [ty |-> "Number", n |-> i, l |-> <<>>, s |-> <<>>]
VBool(b) == [ty |-> "Bool", n |-> IF b THEN 1 ELSE 0, l |-> <<>>, s |-> <<>>]
VList(xs) == [ty |-> "List", n |-> 0, l |-> xs, s |-> <<>>]
VNil == [ty |-> "Nil", n |-> 0, l |-> <<>>, s |-> <<>>]
\* Value::Str: the text, one character after the other
VStr(s) == [ty |-> "Str", n |-> 0, l |-> <<>>, s |-> s]

\* Value::to_bool
to_bool(v) ==
    CASE v.ty = "Integer" -> v.n # 0
      [] v.ty = "Number" -> v.n # 0
      [] v.ty = "Bool" -> v.n = 1
      [] v.ty = "List" -> v.l # <<>>
      [] v.ty = "Str" -> v.s # <<>>
      [] OTHER -> FALSE

\* Value::not
not(v) == VBool(~to_bool(v))

\* format!("{i}"): the decimal digits of an integer
DigitChars == <<"0", "1", "2", "3", "4", "5", "6", "7", "8", "9">>
RECURSIVE Digits(_)
Digits(i) ==
    IF i < 0 THEN <<"-">> \o Digits(0 - i)
    ELSE IF i < 10 THEN <<DigitChars[i + 1]>>
    ELSE Digits(i \div 10) \o <<DigitChars[(i % 10) + 1]>>

\* Value::to_string (a Number of the model is whole and prints as an Integer does;
\* the scripts turn no List into text)
to_string(v) ==
    CASE v.ty = "Str" -> v.s
      [] v.ty \in {"Integer", "Number"} -> Digits(v.n)
      [] v.ty = "Bool" -> IF v.n = 1 THEN <<"t", "r", "u", "e">>
                          ELSE <<"f", "a", "l", "s", "e">>
      [] v.ty = "Nil" -> <<"v", ":", "n", "u", "l", "l">>

\* the characters of the texts of the scripts, in the order of their codes
Ascii == <<" ", "&", "'", "(", ")", "0", "1", "2", "3", "4", "5", "6", "7", "8", "9",
           ":", "=", "A", "F", "T", "a", "b", "c", "d", "e", "f", "g", "h", "i", "j",
           "k", "l", "m", "n", "o", "p", "q", "r", "s", "t", "u", "v", "w", "x", "y",
           "z", "|">>
Code(c) == CHOOSE i \in 1..Len(Ascii) : Ascii[i] = c
\* str < str: the first character that differs decides, a proper prefix is less
RECURSIVE StrLess(_, _)
StrLess(a, b) ==
    IF b = <<>> THEN FALSE
    ELSE IF a = <<>> THEN TRUE
    ELSE IF Head(a) = Head(b) THEN StrLess(Tail(a), Tail(b))
    ELSE Code(Head(a)) < Code(Head(b))

\* Value::to_num: [ok, n]; the todo!() arms abort
to_num(v) ==
    IF v.ty \in {"Integer", "Number", "Bool", "Nil"}
    THEN [ok |-> TRUE, n |-> v.n]
    ELSE [ok |-> FALSE, n |-> 0]

\* Value::add
add(l, r) ==
    IF l.ty = "Integer" /\ r.ty = "Integer"
    THEN [ok |-> TRUE, v |-> VInt(l.n + r.n)]
    ELSE IF to_num(l).ok /\ to_num(r).ok
         THEN [ok |-> TRUE, v |-> VNum(to_num(l).n + to_num(r).n)]
         ELSE [ok |-> FALSE, v |-> VNil]

\* Value::sub
sub(l, r) ==
    IF l.ty = "Integer" /\ r.ty = "Integer"
    THEN [ok |-> TRUE, v |-> VInt(l.n - r.n)]
    ELSE IF to_num(l).ok /\ to_num(r).ok
         THEN [ok |-> TRUE, v |-> VNum(to_num(l).n - to_num(r).n)]
         ELSE [ok |-> FALSE, v |-> VNil]

\* Value::mul
mul(l, r) ==
    IF l.ty = "Integer" /\ r.ty = "Integer"
    THEN [ok |-> TRUE, v |-> VInt(l.n * r.n)]
    ELSE IF to_num(l).ok /\ to_num(r).ok
         THEN [ok |-> TRUE, v |-> VNum(to_num(l).n * to_num(r).n)]
         ELSE [ok |-> FALSE, v |-> VNil]

\* Value::neg
neg(r) ==
    IF r.ty = "Integer" THEN [ok |-> TRUE, v |-> VInt(0 - r.n)]
    ELSE IF to_num(r).ok THEN [ok |-> TRUE, v |-> VNum(0 - to_num(r).n)]
    ELSE [ok |-> FALSE, v |-> VNil]

\* Value::less
less(l, r) ==
    IF l.ty = r.ty /\ l.ty \in {"Integer", "Number"}
    THEN VBool(l.n < r.n)
    ELSE IF l.ty = "Str" /\ r.ty = "Str" THEN VBool(StrLess(l.s, r.s))
    ELSE VBool(FALSE)

\* Value::equal, PartialEq for Value: values of different types are never equal
equal(l, r) == VBool(l.ty = r.ty /\ l = r)

\* a faulty leave_local: the frame is kept
leave_local_keeps(self) == self

\* a faulty into_iter: the walk starts at the second element
into_iter_from_second(v) == IF v.ty = "List" /\ v.l # <<>> THEN Tail(v.l) ELSE <<>>

\* Value::into_iter, ValueIter::next: the elements a for loop walks
into_iter(v) == IF v.ty = "List" THEN v.l ELSE <<>>

-----------------------------------------------------------------------------
(* Names and the scoped symbol table (namespace.rs) *)

StartsWith(s, p) == Len(s) >= Len(p) /\ SubSeq(s, 1, Len(p)) = p

UpperCase == {"A", "B", "C", "D", "E", "F", "G", "H", "I", "J", "K", "L", "M",
              "N", "O", "P", "Q", "R", "S", "T", "U", "V", "W", "X", "Y", "Z"}

\* a faulty from_name: a name without a colon is always Local
from_name_lower(s) ==
    IF StartsWith(s, <<"g", ":">>) THEN [ok |-> TRUE, ns |-> "Global"]
    ELSE IF StartsWith(s, <<"b", ":">>) THEN [ok |-> TRUE, ns |-> "Buffer"]
    ELSE IF StartsWith(s, <<"w", ":">>) THEN [ok |-> TRUE, ns |-> "Window"]
    ELSE IF StartsWith(s, <<"s", ":">>) THEN [ok |-> TRUE, ns |-> "Script"]
    ELSE IF StartsWith(s, <<"v", ":">>) THEN [ok |-> TRUE, ns |-> "Builtin"]
    ELSE IF \E i \in 1..Len(s) : s[i] = ":" THEN [ok |-> FALSE, ns |-> "UnknownNamespace"]
    ELSE [ok |-> TRUE, ns |-> "Local"]

\* Namespace::from_name
from_name(s) ==
    IF StartsWith(s, <<"g", ":">>) THEN [ok |-> TRUE, ns |-> "Global"]
    ELSE IF StartsWith(s, <<"b", ":">>) THEN [ok |-> TRUE, ns |-> "Buffer"]
    ELSE IF StartsWith(s, <<"w", ":">>) THEN [ok |-> TRUE, ns |-> "Window"]
    ELSE IF StartsWith(s, <<"s", ":">>) THEN [ok |-> TRUE, ns |-> "Script"]
    ELSE IF StartsWith(s, <<"v", ":">>) THEN [ok |-> TRUE, ns |-> "Builtin"]
    ELSE IF \E i \in 1..Len(s) : s[i] = ":" THEN [ok |-> FALSE, ns |-> "UnknownNamespace"]
    ELSE IF Len(s) > 0 /\ s[1] \in UpperCase THEN [ok |-> TRUE, ns |-> "Global"]
    ELSE [ok |-> TRUE, ns |-> "Local"]

\* a HashMap: a function with a finite domain
EmptyMap == <<>>
Put(m, k, v) == [x \in (DOMAIN m) \cup {k} |-> IF x = k THEN v ELSE m[x]]
Has(m, k) == k \in DOMAIN m

\* Option<Id>: <<>> is None, <<i>> is Some(i)
None == <<>>

\* NameSpaced::default
EmptyNameSpaced ==
    [global |-> EmptyMap, buffer |-> EmptyMap, window |-> EmptyMap,
     script |-> EmptyMap, local |-> <<>>, builtin |-> EmptyMap,
     buffer_id |-> None, window_id |-> None, script_id |-> None]

\* NameSpaced::insert_builtin
insert_builtin(self, name, val) == [self EXCEPT !.builtin = Put(@, name, val)]

\* the per-id entry of the buffer map, `.entry(id).or_default()`
EntryOf(m, id) == IF Has(m, id) THEN m[id] ELSE EmptyMap

\* a faulty insert: a Local name is written to the outermost frame
NsInsertOutermost(self, name, val) ==
    IF from_name(name).ok /\ from_name(name).ns = "Local" /\ self.local # <<>>
    THEN [ok |-> TRUE, err |-> "", ns |-> [self EXCEPT !.local[1] = Put(@, name, val)]]
    ELSE [ok |-> FALSE, err |-> "NamespaceNotDefined(Local)", ns |-> self]

\* NameSpaced::insert through NameSpaced::get_mut: [ok, err, ns]
NsInsert(self, name, val) ==
    LET r == from_name(name)
        bad(e) == [ok |-> FALSE, err |-> e, ns |-> self]
        good(n) == [ok |-> TRUE, err |-> "", ns |-> n]
        \* get_mut takes all three of Buffer, Window and Script from self.buffer
        inBuffer(id) == good([self EXCEPT !.buffer =
                                Put(@, id[1], Put(EntryOf(@, id[1]), name, val))])
    IN  IF ~r.ok THEN bad("UnknownNamespace")
        ELSE CASE r.ns = "Global" -> good([self EXCEPT !.global = Put(@, name, val)])
               [] r.ns = "Local" ->
                    IF self.local = <<>> THEN bad("NamespaceNotDefined(Local)")
                    ELSE good([self EXCEPT !.local[Len(self.local)] = Put(@, name, val)])
               [] r.ns = "Buffer" ->
                    IF self.buffer_id = None THEN bad("NamespaceNotDefined(Buffer)")
                    ELSE inBuffer(self.buffer_id)
               [] r.ns = "Window" ->
                    IF self.window_id = None THEN bad("NamespaceNotDefined(Window)")
                    ELSE inBuffer(self.window_id)
               [] r.ns = "Script" ->
                    IF self.script_id = None THEN bad("NamespaceNotDefined(Script)")
                    ELSE inBuffer(self.script_id)
               [] OTHER -> good([self EXCEPT !.builtin = Put(@, name, val)])

\* a HashMap without the key k, `.remove(k)`
Del(m, k) == [x \in (DOMAIN m) \ {k} |-> m[x]]

\* NameSpaced::remove through NameSpaced::get_mut: [ok, err, ns]
NsRemove(self, name) ==
    LET r == from_name(name)
        bad(e) == [ok |-> FALSE, err |-> e, ns |-> self]
        good(n) == [ok |-> TRUE, err |-> "", ns |-> n]
        \* `.entry(id).or_default()` makes the entry of the id when there is none
        inBuffer(id) == good([self EXCEPT !.buffer =
                                Put(@, id[1], Del(EntryOf(@, id[1]), name))])
    IN  IF ~r.ok THEN bad("UnknownNamespace")
        ELSE CASE r.ns = "Global" -> good([self EXCEPT !.global = Del(@, name)])
               [] r.ns = "Local" ->
                    IF self.local = <<>> THEN bad("NamespaceNotDefined(Local)")
                    ELSE good([self EXCEPT !.local[Len(self.local)] = Del(@, name)])
               [] r.ns = "Buffer" ->
                    IF self.buffer_id = None THEN bad("NamespaceNotDefined(Buffer)")
                    ELSE inBuffer(self.buffer_id)
               [] r.ns = "Window" ->
                    IF self.window_id = None THEN bad("NamespaceNotDefined(Window)")
                    ELSE inBuffer(self.window_id)
               [] r.ns = "Script" ->
                    IF self.script_id = None THEN bad("NamespaceNotDefined(Script)")
                    ELSE inBuffer(self.script_id)
               [] OTHER -> good([self EXCEPT !.builtin = Del(@, name)])

\* a faulty find_map: the walk starts at the outermost frame
RECURSIVE FindLocalOutermost(_, _, _)
FindLocalOutermost(local, name, i) ==
    IF i = 0 THEN 0
    ELSE IF FindLocalOutermost(local, name, i - 1) > 0
         THEN FindLocalOutermost(local, name, i - 1)
    ELSE IF Has(local[i], name) THEN i
    ELSE 0

\* the innermost local frame that binds name, 0 when none does
RECURSIVE FindLocal(_, _, _)
FindLocal(local, name, i) ==
    IF i = 0 THEN 0
    ELSE IF Has(local[i], name) THEN i
    ELSE FindLocal(local, name, i - 1)

\* NameSpaced::get: [ok, err, found, v]
NsGet(self, name) ==
    LET r == from_name(name)
        bad(e) == [ok |-> FALSE, err |-> e, found |-> FALSE, v |-> VNil]
        miss == [ok |-> TRUE, err |-> "", found |-> FALSE, v |-> VNil]
        hit(v) == [ok |-> TRUE, err |-> "", found |-> TRUE, v |-> v]
        in(m) == IF Has(m, name) THEN hit(m[name]) ELSE miss
        \* get reads the id of all three of Buffer, Window and Script from buffer_id
        perId(m) == IF self.buffer_id = None THEN bad("NamespaceNotDefined(Buffer)")
                    ELSE IF Has(m, self.buffer_id[1]) THEN in(m[self.buffer_id[1]])
                    ELSE miss
    IN  IF ~r.ok THEN bad("UnknownNamespace")
        ELSE CASE r.ns = "Global" -> in(self.global)
               [] r.ns = "Buffer" -> perId(self.buffer)
               [] r.ns = "Window" -> perId(self.window)
               [] r.ns = "Script" -> perId(self.script)
               [] r.ns = "Local" ->
                    LET i == FindLocal(self.local, name, Len(self.local))
                    IN  IF i > 0 THEN hit(self.local[i][name]) ELSE in(self.builtin)
               [] OTHER -> in(self.builtin)

\* NameSpaced::enter_local, NameSpaced::leave_local
enter_local(self) == [self EXCEPT !.local = Append(@, EmptyMap)]
leave_local(self) ==
    [self EXCEPT !.local = IF @ = <<>> THEN <<>> ELSE SubSeq(@, 1, Len(@) - 1)]

\* a faulty set_buffer: the global scope is emptied with the switch
set_buffer_forgets(self, id) == [self EXCEPT !.buffer_id = id, !.global = EmptyMap]

\* NameSpaced::set_window, NameSpaced::set_buffer, NameSpaced::set_script
set_window(self, id) == [self EXCEPT !.window_id = id]
set_buffer(self, id) == [self EXCEPT !.buffer_id = id]
set_script(self, id) == [self EXCEPT !.script_id = id]

\* VimScriptCtx::lookup: [ok, err, v]
lookup(vs, name) ==
    LET g == NsGet(vs, name)
    IN  IF ~g.ok THEN [ok |-> FALSE, err |-> g.err, v |-> VNil]
        ELSE IF ~g.found THEN [ok |-> FALSE, err |-> "VariableUndefined", v |-> VNil]
        ELSE [ok |-> TRUE, err |-> "", v |-> g.v]

-----------------------------------------------------------------------------
(* Expressions (expr.rs): the text of an expression as the tree parse reduces *)

EInt(i) == [k |-> "int", v |-> i, n |-> <<>>, a |-> <<>>]
EVar(nm) == [k |-> "var", v |-> 0, n |-> nm, a |-> <<>>]
EAdd(l, r) == [k |-> "+", v |-> 0, n |-> <<>>, a |-> <<l, r>>]
ELess(l, r) == [k |-> "<", v |-> 0, n |-> <<>>, a |-> <<l, r>>]
EList(items) == [k |-> "list", v |-> 0, n |-> <<>>, a |-> items]
ECall(f, args) == [k |-> "call", v |-> 0, n |-> f, a |-> args]
ELessEq(l, r) == [k |-> "<=", v |-> 0, n |-> <<>>, a |-> <<l, r>>]
EGreater(l, r) == [k |-> ">", v |-> 0, n |-> <<>>, a |-> <<l, r>>]
EGreaterEq(l, r) == [k |-> ">=", v |-> 0, n |-> <<>>, a |-> <<l, r>>]
EEqual(l, r) == [k |-> "==", v |-> 0, n |-> <<>>, a |-> <<l, r>>]
ENotEqual(l, r) == [k |-> "!=", v |-> 0, n |-> <<>>, a |-> <<l, r>>]
\* a string literal, 'text'
EStr(s) == [k |-> "str", v |-> 0, n |-> s, a |-> <<>>]
\* the text `&name`
EOption(nm) == [k |-> "&", v |-> 0, n |-> nm, a |-> <<>>]
\* the empty text, as a bare `return` or `call` gives
ENone == [k |-> "none", v |-> 0, n |-> <<>>, a |-> <<>>]

\* what evaluating an expression gives: a value, a fault, or a pending call
ValEv(v) == [k |-> "val", v |-> v, err |-> "", f |-> <<>>, args |-> <<>>]
ErrEv(e) == [k |-> "err", v |-> VNil, err |-> e, f |-> <<>>, args |-> <<>>]
CallEv(f, args) == [k |-> "call", v |-> VNil, err |-> "", f |-> f, args |-> args]
NoEv == [k |-> "none", v |-> VNil, err |-> "", f |-> <<>>, args |-> <<>>]

\* the identifiers of an expression that are looked up, left to right
\* (function_call_extract has turned `name(` into a call site before)
RECURSIVE VarsOf(_), VarsOfAll(_, _)
VarsOf(e) ==
    IF e.k = "var" THEN <<e.n>> ELSE VarsOfAll(e.a, 1)
VarsOfAll(es, i) ==
    IF i > Len(es) THEN <<>> ELSE VarsOf(es[i]) \o VarsOfAll(es, i + 1)

\* parse, stage 3: every identifier is replaced by its lookup; the first failure ends parse
RECURSIVE FirstLookupError(_, _, _)
FirstLookupError(vs, names, i) ==
    IF i > Len(names) THEN ""
    ELSE CHOOSE err \in {IF g.ok THEN FirstLookupError(vs, names, i + 1) ELSE g.err :
                           g \in {lookup(vs, names[i])}} : TRUE

\* a binary pass of the reduction on two reduced operands: [ok, v]
AddOf(l, r) == IF l.ok /\ r.ok THEN add(l.v, r.v) ELSE [ok |-> FALSE, v |-> VNil]
SubOf(l, r) == IF l.ok /\ r.ok THEN sub(l.v, r.v) ELSE [ok |-> FALSE, v |-> VNil]
MulOf(l, r) == IF l.ok /\ r.ok THEN mul(l.v, r.v) ELSE [ok |-> FALSE, v |-> VNil]
LessOf(l, r) ==
    IF l.ok /\ r.ok THEN [ok |-> TRUE, v |-> less(l.v, r.v)] ELSE [ok |-> FALSE, v |-> VNil]
NotOf(r) == IF r.ok THEN [ok |-> TRUE, v |-> not(r.v)] ELSE r
EqualOf(l, r) ==
    IF l.ok /\ r.ok THEN [ok |-> TRUE, v |-> equal(l.v, r.v)] ELSE [ok |-> FALSE, v |-> VNil]
\* the list pass on the reduced elements
ListOf(r) == [ok |-> r.ok, v |-> VList(r.vals)]
ConsOf(h, t) == [ok |-> h.ok /\ t.ok, vals |-> <<h.v>> \o t.vals]

\* binary_expr, the passes for `+` and for the comparisons, on two reduced operands
OpDef(op, lhs, rhs) ==
    CASE op = "+" -> AddOf(lhs, rhs)
      [] op = "-" -> SubOf(lhs, rhs)
      [] op = "*" -> MulOf(lhs, rhs)
      [] op = "<" -> LessOf(lhs, rhs)
      [] op = ">" -> LessOf(rhs, lhs)
      [] op = "<=" -> NotOf(LessOf(rhs, lhs))
      [] op = ">=" -> NotOf(LessOf(lhs, rhs))
      [] op = "==" -> EqualOf(lhs, rhs)
      [] op = "!=" -> NotOf(EqualOf(lhs, rhs))

\* parse, stage 4: the reduction of the tokens to one value: [ok, v]; ~ok is an abort (todo!)
RECURSIVE Reduce(_, _), ReduceAll(_, _, _)
Reduce(e, vs) ==
    CASE e.k = "int" -> [ok |-> TRUE, v |-> VInt(e.v)]
      [] e.k = "var" -> [ok |-> TRUE, v |-> lookup(vs, e.n).v]
      [] e.k = "list" -> ListOf(ReduceAll(e.a, vs, 1))
      [] e.k \in {"+", "<", ">", "<=", ">=", "==", "!="} ->
           OpDef(e.k, Reduce(e.a[1], vs), Reduce(e.a[2], vs))
      [] e.k = "str" -> [ok |-> TRUE, v |-> VStr(e.n)]
      [] OTHER -> [ok |-> FALSE, v |-> VNil]
ReduceAll(es, vs, i) ==
    IF i > Len(es) THEN [ok |-> TRUE, vals |-> <<>>]
    ELSE ConsOf(Reduce(es[i], vs), ReduceAll(es, vs, i + 1))

\* the end of parse: the one value left, an abort, or the call at the head
Reduced(r) == IF r.ok THEN ValEv(r.v) ELSE ErrEv("Panic")
ReducedCall(f, r) == IF r.ok THEN CallEv(f, r.vals) ELSE ErrEv("Panic")

\* expr::parse, up to the call of a user function at the head of the expression
EvalAfterLookup(e, vs, bad) ==
    IF bad # "" THEN ErrEv(bad)
    ELSE IF e.k = "call" THEN ReducedCall(e.n, ReduceAll(e.a, vs, 1))
    ELSE Reduced(Reduce(e, vs))
\* ExprPeice::parse: does the text hold a character that starts no token (`&` is
\* none of the operator characters)
RECURSIVE UnexpectedSymbol(_), UnexpectedSymbolIn(_, _)
UnexpectedSymbol(e) == e.k = "&" \/ UnexpectedSymbolIn(e.a, 1)
UnexpectedSymbolIn(es, i) ==
    i <= Len(es) /\ (UnexpectedSymbol(es[i]) \/ UnexpectedSymbolIn(es, i + 1))
\* expr::parse: the text is cut into tokens, then the identifiers are looked up
Eval(e, vs) ==
    IF UnexpectedSymbol(e) THEN ErrEv("UnexpectedSymbol")
    ELSE EvalAfterLookup(e, vs, FirstLookupError(vs, VarsOf(e), 1))

-----------------------------------------------------------------------------
(* Lines (lib.rs, struct Line and enum CmdRange) *)

CurrentLine == [k |-> "CurrentLine", a |-> 0, b |-> 0, p |-> <<>>]
Whole == [k |-> "Whole", a |-> 0, b |-> 0, p |-> <<>>]
Range(s, e) == [k |-> "Range", a |-> s, b |-> e, p |-> <<>>]
RangeFrom(s) == [k |-> "RangeFrom", a |-> s, b |-> 0, p |-> <<>>]
RangeTo(e) == [k |-> "RangeTo", a |-> 0, b |-> e, p |-> <<>>]
Select(p) == [k |-> "Select", a |-> 0, b |-> 0, p |-> p]

\* CmdRange::is_some
is_some(range) == range.k # "CurrentLine"

\* a line: command keyword, range, bang, and its parameter text; the text is kept
\* as what the keyword's handler takes from it: a name, parameter names, an expression
Line(command, range, bang, params, name, args, expr, haseq) ==
    [command |-> command, range |-> range, bang |-> bang, params |-> params,
     name |-> name, args |-> args, expr |-> expr, haseq |-> haseq, nested |-> <<>>]

Kw(command) == Line(command, CurrentLine, FALSE, "", <<>>, <<>>, ENone, FALSE)
KwE(command, e) == Line(command, CurrentLine, FALSE, "", <<>>, <<>>, e, FALSE)
LIf(e) == KwE("if", e)
LElseIf(e) == KwE("elseif", e)
LElse == Kw("else")
LEndIf == Kw("endif")
LFor(nm, e) == Line("for", CurrentLine, FALSE, "", nm, <<>>, e, FALSE)
LEndFor == Kw("endfor")
LWhile(e) == KwE("while", e)
LEndWhile == Kw("endwhile")
LFunction(nm, ps) == Line("function", CurrentLine, FALSE, "", nm, ps, ENone, FALSE)
LEndFunction == Kw("endfunction")
LLet(nm, e) == Line("let", CurrentLine, FALSE, "", nm, <<>>, e, TRUE)
LFinish == Kw("finish")
LExit == Kw("exit")
LReturn(e) == KwE("return", e)
LCall(e) == KwE("call", e)
LEcho(e) == KwE("echo", e)
LCmd(command, params) == Line(command, CurrentLine, FALSE, params, <<>>, <<>>, ENone, FALSE)
LCmdR(command, range, bang, params) ==
    Line(command, range, bang, params, <<>>, <<>>, ENone, FALSE)
\* `silent <line>`, `unsilent <line>`: the parameter text is one more line; a bare
\* `silent` has none (Line::new gives None)
LSilent(nested) == [Kw("silent") EXCEPT !.nested = nested]
LUnsilent(nested) == [Kw("unsilent") EXCEPT !.nested = nested]
\* `execute <expr>`
LExecute(e) == KwE("execute", e)
\* no line
NoLine == Kw("")

-----------------------------------------------------------------------------
(* Line::new: the text of one line, one character after the other, is cut   *)
(* into range, command keyword, bang and parameter text                     *)

Letters ==
    {"a", "b", "c", "d", "e", "f", "g", "h", "i", "j", "k", "l", "m", "n", "o", "p", "q",
     "r", "s", "t", "u", "v", "w", "x", "y", "z", "A", "B", "C", "D", "E", "F", "G", "H",
     "I", "J", "K", "L", "M", "N", "O", "P", "Q", "R", "S", "T", "U", "V", "W", "X", "Y",
     "Z"}
is_alphabetic(c) == c \in Letters
is_digit(c) == c \in {DigitChars[i] : i \in 1..Len(DigitChars)}
is_alphanumeric(c) == is_alphabetic(c) \/ is_digit(c)
is_whitespace(c) == c \in {" ", "\n"}

\* str::trim_start, str::trim
RECURSIVE trim_start(_), trim_end(_)
trim_start(t) ==
    IF t # <<>> /\ is_whitespace(Head(t)) THEN trim_start(Tail(t)) ELSE t
trim_end(t) ==
    IF t # <<>> /\ is_whitespace(t[Len(t)]) THEN trim_end(SubSeq(t, 1, Len(t) - 1)) ELSE t
trim(t) == trim_end(trim_start(t))

\* the text from its i-th character on, and up to the one before
From(t, i) == SubSeq(t, i, Len(t))
Upto(t, i) == SubSeq(t, 1, i - 1)

\* str::find with a predicate: the first position whose character is in the set (or
\* is not, for keep = FALSE), 0 when there is none
RECURSIVE Find(_, _, _, _)
Find(t, set, keep, i) ==
    IF i > Len(t) THEN 0
    ELSE IF (t[i] \in set) = keep THEN i
    ELSE Find(t, set, keep, i + 1)

\* str::parse::<usize>: [ok, n]; a text that is not all digits does not parse
RECURSIVE DigitsValue(_, _)
DigitsValue(t, acc) ==
    IF t = <<>> THEN acc
    ELSE DigitsValue(Tail(t),
                     acc * 10 + (CHOOSE d \in 1..10 : DigitChars[d] = Head(t)) - 1)
parse_number(t) ==
    IF t # <<>> /\ \A i \in 1..Len(t) : is_digit(t[i])
    THEN [ok |-> TRUE, n |-> DigitsValue(t, 0)]
    ELSE [ok |-> FALSE, n |-> 0]

\* the result of split_range: the range and the rest of the line, or a fault
Cut(range, rest) == [ok |-> TRUE, err |-> "", range |-> range, rest |-> rest]
NoCut(e) == [ok |-> FALSE, err |-> e, range |-> CurrentLine, rest |-> <<>>]

\* split_range, the `/pattern/` arm: the first `/` that no `\` precedes ends the pattern
RECURSIVE ClosingSlash(_, _)
ClosingSlash(t, i) ==
    IF i > Len(t) THEN 0
    ELSE IF t[i] = "/" /\ (IF i = 1 THEN "/" ELSE t[i - 1]) # "\\" THEN i
    ELSE ClosingSlash(t, i + 1)

\* split_range, the last arm: what stands before the first letter is split at `,`
NumberRange(pre, rem) ==
    LET c == Find(pre, {","}, TRUE, 1)
        start == parse_number(Upto(pre, c))
        end == parse_number(From(pre, c + 1))
    IN  IF c = 0 THEN Cut(CurrentLine, rem)
        ELSE IF Upto(pre, c) = <<>> /\ From(pre, c + 1) = <<>> THEN Cut(Whole, rem)
        ELSE IF Upto(pre, c) = <<>>
        THEN IF end.ok THEN Cut(RangeTo(end.n), rem) ELSE NoCut("Expected(Number)")
        ELSE IF From(pre, c + 1) = <<>>
        THEN IF start.ok THEN Cut(RangeFrom(start.n), rem) ELSE NoCut("Expected(Number)")
        ELSE IF start.ok /\ end.ok THEN Cut(Range(start.n, end.n), rem)
        ELSE NoCut("Expected(Number)")

\* Line::split_range
split_range(line) ==
    IF line # <<>> /\ Head(line) = "/"
    THEN LET i == ClosingSlash(Tail(line), 1)
         IN  IF i = 0 THEN NoCut("Expected(/)")
             ELSE Cut(Select(Upto(Tail(line), i)), From(Tail(line), i + 1))
    ELSE IF line # <<>> /\ Head(line) = "%" THEN Cut(Whole, Tail(line))
    ELSE LET f == Find(line, Letters, TRUE, 1)
             idx == IF f = 0 THEN Len(line) + 1 ELSE f
         IN  NumberRange(Upto(line, idx), From(line, idx))

\* Line::split_command: the keyword ends before the first character that is neither
\* a letter nor a digit
split_command(line) ==
    LET f == Find(line, {c \in {line[i] : i \in 1..Len(line)} : is_alphanumeric(c)},
                  FALSE, 1)
    IN  IF f = 0 THEN [command |-> line, rest |-> <<>>]
        ELSE [command |-> Upto(line, f), rest |-> From(line, f)]

\* a faulty split_bang: the `!` is left in the parameter text
split_bang_never(line) == [bang |-> FALSE, rest |-> line]

\* Line::split_bang
split_bang(line) ==
    IF line # <<>> /\ Head(line) = "!" THEN [bang |-> TRUE, rest |-> Tail(line)]
    ELSE [bang |-> FALSE, rest |-> line]

\* what Line::new returns: a fault, no line, or the four parts of the line
Parts(range, command, bang, params) ==
    [ok |-> TRUE, err |-> "", some |-> TRUE, range |-> range, command |-> command,
     bang |-> bang, params |-> params]
NoParts == [Parts(CurrentLine, <<>>, FALSE, <<>>) EXCEPT !.some = FALSE]
BadParts(e) == [NoParts EXCEPT !.ok = FALSE, !.err = e]

\* Line::new, past the range
NewAfterRange(r) ==
    LET c == split_command(r.rest)
        b == split_bang(c.rest)
    IN  IF ~r.ok THEN BadParts(r.err)
        ELSE IF ~b.bang /\ c.command = <<>> THEN NoParts
        ELSE Parts(r.range, c.command, b.bang, trim_start(b.rest))

\* Line::new
LineNew(line) ==
    IF trim(line) # <<>> /\ Head(trim(line)) = "\""
    THEN NoParts
    ELSE NewAfterRange(split_range(trim(line)))


-----------------------------------------------------------------------------
(* Tokenizer::Script: a text that is run is cut into its lines *)

\* a text of characters as the string that the lines of a script carry
RECURSIVE Text(_)
Text(cs) == IF cs = <<>> THEN "" ELSE Head(cs) \o Text(Tail(cs))

\* ExprPeice::parse on a text of one token: a number, a string literal (the text
\* between its quotes) or an identifier; the texts that are run hold no other
ExprOf(t) ==
    LET e == trim(t)
    IN  CASE e = <<>> -> ENone
          [] e # <<>> /\ is_digit(Head(e)) -> EInt(parse_number(e).n)
          [] e # <<>> /\ Head(e) \in {"'", "\""} -> EStr(SubSeq(e, 2, Len(e) - 1))
          [] e # <<>> /\ is_alphabetic(Head(e)) -> EVar(e)

\* Tokenizer::get_next, the predicate of split_once: the first `|`, or the first
\* newline that no `\` precedes (blanks apart); 0 when there is none
RECURSIVE SplitAt(_, _, _)
SplitAt(t, i, prev) ==
    IF i > Len(t) THEN 0
    ELSE IF (prev # "\\" /\ t[i] = "\n") \/ t[i] = "|" THEN i
    ELSE SplitAt(t, i + 1, IF is_whitespace(t[i]) THEN prev ELSE t[i])

\* Tokenizer::get_next: Line::new on the first line, and the trimmed rest of the text
get_next(text) ==
    CHOOSE g \in
        {[line |-> LineNew(trim(IF i = 0 THEN text ELSE Upto(text, i))),
          next |-> IF i = 0 THEN <<>> ELSE trim(From(text, i + 1))] :
            i \in {SplitAt(text, 1, " ")}} : TRUE

\* a line that Line::new fails on: the fault it returns
BadLine(e) == [Kw("<bad>") EXCEPT !.params = e]

\* run_line, the reading of the parameter text by the arm of the keyword: `let` splits
\* it at the first `=`, `silent` and `unsilent` call Line::new on it, the others that
\* evaluate it hand it to eval (the texts that are run hold no `for` and no `function`;
\* each part is computed once, the bound names range over one value each)
RECURSIVE LineOf(_)
LineOf(p) ==
    CHOOSE line \in
        {CASE c = "let" /\ eq > 0 ->
                [plain EXCEPT !.name = trim(Upto(p.params, eq)),
                              !.expr = ExprOf(From(p.params, eq + 1)), !.haseq = TRUE]
           [] c \in {"silent", "unsilent"} ->
                [plain EXCEPT !.nested = IF ~in.ok THEN <<BadLine(in.err)>>
                                         ELSE IF in.some THEN <<LineOf(in)>> ELSE <<>>]
           [] c \in {"if", "elseif", "while", "return", "execute", "call", "echo"} ->
                [plain EXCEPT !.expr = ExprOf(p.params)]
           [] c \notin {"silent", "unsilent", "if", "elseif", "while", "return", "execute",
                        "call", "echo", "for", "function"} /\ (c = "let" => eq = 0) ->
                plain :
            c \in {Text(p.command)},
            eq \in {Find(p.params, {"="}, TRUE, 1)},
            in \in {LineNew(p.params)},
            plain \in {Line(Text(p.command), p.range, p.bang, Text(p.params), <<>>, <<>>,
                            ENone, FALSE)}} : TRUE

\* Tokenizer::next, all along a text: its lines, up to the first that
\* Line::new fails on
RECURSIVE ScriptLines(_)
ScriptLines(text) ==
    IF text = <<>> THEN <<>>
    ELSE CHOOSE lines \in
             {IF ~g.line.ok THEN <<BadLine(g.line.err)>>
              ELSE (IF g.line.some THEN <<LineOf(g.line)>> ELSE <<>>)
                     \o ScriptLines(g.next) : g \in {get_next(text)}} : TRUE

\* the keywords run_line matches before it falls through to the command registry
Keywords == {"if", "elseif", "else", "endif", "for", "endfor", "while", "endwhile",
             "function", "endfunction", "let", "silent", "unsilent", "execute",
             "finish", "exit", "return"}

-----------------------------------------------------------------------------
(* Activations of run_inner *)

\* what an activation waits for while a callee runs: the call site in run_line
\* (or in the expression of its line) that the callee returns to
NoWait == [op |-> "none", items |-> <<>>]
Waiting(op, items) == [op |-> op, items |-> items]

\* RunTy::Function(&mut VimFunction): the function under capture
NoFn == [name |-> <<>>, params |-> <<>>, inner |-> <<>>]

\* Function::VimScript: the parameter names and the captured lines of a VimFunction
VimFunction(params, inner) == [params |-> params, inner |-> inner, builtin |-> ""]
\* Function::Builtin: the builtin function of that name
BuiltinFunction(name) == [params |-> <<>>, inner |-> <<>>, builtin |-> name]

\* one activation: the tokenizer it reads (lines, pc), its Section and RunTy, whether
\* the tokenizer is the caller's own (`script`) or a clone / another text; oneline
\* marks the call of run_line that `silent` and `unsilent` make on their nested line
Frame(lines, pc, section, run, src, shared, fn) ==
    [lines |-> lines, pc |-> pc, section |-> section, run |-> run, src |-> src,
     shared |-> shared, fn |-> fn, wait |-> NoWait, oneline |-> FALSE, line |-> NoLine]

\* Result<Option<Value>>, what run_inner returns
OkNone == [k |-> "Ok", has |-> FALSE, v |-> VNil, err |-> ""]
OkSome(v) == [k |-> "Ok", has |-> TRUE, v |-> v, err |-> ""]
ErrOut(e) == [k |-> "Err", has |-> FALSE, v |-> VNil, err |-> e]

\* the faults of a host call: the one raised by the last step (err) and whether the
\* builtin call or echo reported it (caught); all that were raised, all that were reported
NoFault == [err |-> "", caught |-> FALSE, all |-> {}, reported |-> {}]
\* a fault e is raised
Faulted(s, e) ==
    [s EXCEPT !.fault = [err |-> e, caught |-> FALSE, all |-> s.fault.all \cup {e},
                         reported |-> s.fault.reported]]
\* the handler of call or echo hands the fault to State::echo
Reported(s, e) ==
    [s EXCEPT !.echoed = Append(@, e), !.fault.caught = TRUE,
              !.fault.reported = @ \cup {e}]

\* a faulty run: Exit is returned as the fault it is raised as
RunResultKeepsExit(out) == IF out.k = "Ok" THEN "Ok" ELSE out.err

\* VimScriptCtx::run, the match on the result of run_inner
RunResult(out) == IF out.k = "Ok" \/ out.err = "Exit" THEN "Ok" ELSE out.err

\* VimFunction::execute, `.map(|v| v.unwrap_or(Value::Nil))`
OutToEv(out) ==
    IF out.k = "Ok" THEN ValEv(IF out.has THEN out.v ELSE VNil) ELSE ErrEv(out.err)

\* a faulty end of text: success in every section
EofAlwaysOk(section) == OkNone

\* run_inner at the end of its text
EofOutcome(section) == IF section = "Script" THEN OkNone ELSE ErrOut("UnexpectedEof")

\* a faulty deadline check: the clock is never past the deadline
NeverTimedOut(deadline, clock) == FALSE

\* run_inner, `if self.timeout < Instant::now()`
TimedOut(deadline, clock) == deadline < clock

\* the state the interpreter works on, threaded through the operators below
Top(s) == s.stack[Len(s.stack)]
CurLine(f) == IF f.oneline THEN f.line ELSE f.lines[f.pc - 1]

\* an abort of the process (todo!(), an index out of range): nothing catches it
Abort(s) ==
    [Faulted(s, "Panic") EXCEPT !.stack = <<>>, !.phase = "panicked"]

\* the calls run_line makes into run_inner: a new activation over the same tokenizer
\* (shared) or over a clone of it, the caller waiting at `op`
PushBlock(s, section, run, op, items, shared, fn) ==
    LET f == Top(s)
        child == Frame(f.lines, f.pc, section, run, f.src, shared, fn)
    IN  [s EXCEPT !.stack = Append([@ EXCEPT ![Len(@)].wait = Waiting(op, items)], child)]

\* `state.set_silent(self.silence_level > 0)`: the host's State stores the flag
set_silent(s) == [s EXCEPT !.silent = (s.silence > 0)]

\* run_line, "silent" and "unsilent": run_line is called on the nested line with
\* Section::Script and RunTy::Now, over the same tokenizer
PushLine(s, op, line) ==
    LET f == Top(s)
        child == [Frame(f.lines, f.pc, "Script", "Now", f.src, TRUE, NoFn)
                     EXCEPT !.oneline = TRUE, !.line = line]
    IN  [s EXCEPT !.stack = Append([@ EXCEPT ![Len(@)].wait = Waiting(op, <<>>)], child)]

\* run_inner is called on a tokenizer of its own (`execute`, the builtin exec): a new
\* activation over the lines of the text, the caller waiting at `op`
PushText(s, lines, op) ==
    LET child == Frame(lines, 1, "Script", "Now", "text", FALSE, NoFn)
    IN  [s EXCEPT !.stack = IF @ = <<>> THEN <<child>>
                             ELSE Append([@ EXCEPT ![Len(@)].wait = Waiting(op, <<>>)],
                                         child)]

\* RunTy::act, the Function arm: the line is pushed onto the function under capture
Capture(s, line) ==
    [s EXCEPT !.stack[Len(s.stack)].fn.inner = Append(@, line)]

\* the run mode of the current activation becomes r (`*run_type = ...`)
SetRun(s, r) == [s EXCEPT !.stack[Len(s.stack)].run = r]

\* a faulty dispatch: the handler is not given the range of the line
InvokeWithoutRange(s, line, ev) ==
    [s EXCEPT !.calls = Append(@,
         [name |-> line.command, handler |-> commands[line.command],
          range |-> CurrentLine, bang |-> line.bang, params |-> line.params,
          x |-> lookup(s.variables, <<"x">>)])]

\* a registered command runs: the builtin `call` and `echo` of builtin_commands,
\* or a handler of the host, which records what it was given
Invoke(s, line, ev) ==
    LET h == commands[line.command]
    IN  CASE h = "builtin_call" ->
               IF ev.k = "err" THEN Reported(s, ev.err) ELSE s
          [] h = "builtin_echo" ->
               IF ev.k = "err" THEN Reported(s, ev.err)
               ELSE [s EXCEPT !.echoed = Append(@, "value")]
          [] OTHER ->
               [s EXCEPT !.calls = Append(@,
                    [name |-> line.command, handler |-> h, range |-> line.range,
                     bang |-> line.bang, params |-> line.params,
                     x |-> lookup(s.variables, <<"x">>)])]

\* VimFunction::execute, the binding of the parameters: [ok, err, ns]
RECURSIVE Bind(_, _, _, _)
Bind(vs, params, args, i) ==
    IF i > Len(params) THEN [ok |-> TRUE, err |-> "", ns |-> vs]
    ELSE LET r == NsInsert(vs, params[i], IF i <= Len(args) THEN args[i] ELSE VNil)
         IN  IF r.ok THEN Bind(r.ns, params, args, i + 1) ELSE r

\* does the handler of this line evaluate the expression of the line, in this mode
NeedsEval(line, f) ==
    CASE line.command = "if" -> f.run = "Now"
      [] line.command = "elseif" -> f.section = "If" /\ f.run = "Skip"
      [] line.command \in {"for", "while", "return"} -> TRUE
      [] line.command = "let" ->
           f.run = "Now" /\ ~is_some(line.range) /\ ~line.bang /\ line.haseq
      [] line.command = "execute" -> f.run = "Now"
      [] line.command \in Keywords \ {"if", "elseif", "for", "while", "return", "let",
                                      "execute"} ->
           FALSE
      [] OTHER -> f.run = "Now" /\ Has(commands, line.command)
                    /\ commands[line.command] \in {"builtin_call", "builtin_echo"}

-----------------------------------------------------------------------------
(* run_inner, run_line, run_function: one line at a time, with the returns  *)
(* of the activations that the line ends.  Each operator gives what happens *)
(* next: the state to stop in, or the next call or return to make.          *)

Stop(s) ==
    [op |-> "stop", s |-> s, out |-> OkNone, line |-> NoLine, ev |-> NoEv, items |-> <<>>,
     text |-> <<>>, wait |-> ""]
ToFinish(s, out) ==
    [op |-> "finish", s |-> s, out |-> out, line |-> NoLine, ev |-> NoEv, items |-> <<>>,
     text |-> <<>>, wait |-> ""]
ToDispatch(s, line) ==
    [op |-> "dispatch", s |-> s, out |-> OkNone, line |-> line, ev |-> NoEv, items |-> <<>>,
     text |-> <<>>, wait |-> ""]
ToDeliver(s, line, ev) ==
    [op |-> "deliver", s |-> s, out |-> OkNone, line |-> line, ev |-> ev, items |-> <<>>,
     text |-> <<>>, wait |-> ""]
ToDeliverTo(s, ev) ==
    [op |-> "deliverTo", s |-> s, out |-> OkNone, line |-> NoLine, ev |-> ev, items |-> <<>>,
     text |-> <<>>, wait |-> ""]
ToForNext(s, line, items) ==
    [op |-> "for", s |-> s, out |-> OkNone, line |-> line, ev |-> NoEv, items |-> items,
     text |-> <<>>, wait |-> ""]
ToCall(s, ev) ==
    [op |-> "call", s |-> s, out |-> OkNone, line |-> NoLine, ev |-> ev, items |-> <<>>,
     text |-> <<>>, wait |-> ""]

\* run_inner is to be entered on a text, the caller waiting at `wait`
ToRun(s, text, wait) ==
    [op |-> "run", s |-> s, out |-> OkNone, line |-> NoLine, ev |-> NoEv, items |-> <<>>,
     text |-> text, wait |-> wait]

\* a faulty propagation: the fault is dropped and the next line runs
RaiseAndGoOn(s, e) == Stop(Faulted(s, e))

\* a fault is raised in the current activation: `return Err(e)` or a failing `?`
Raise(s, e) == ToFinish(Faulted(s, e), ErrOut(e))

\* a faulty act: the line acts in every run mode
ActInEveryMode(s, line, nowResult) == nowResult

\* RunTy::act: what a command or `let` line does in each run mode
Act(s, line, nowResult) ==
    LET f == Top(s)
    IN  CASE f.run = "Now" -> nowResult
          [] f.run = "Function" -> Stop(Capture(s, line))
          [] OTHER -> Stop(s)

\* the result of an expression reaches the one who asked: the line of the current
\* activation, or the host when no activation is left
DeliverTo(s, ev) ==
    IF s.stack = <<>>
    THEN Stop([s EXCEPT !.phase = "done", !.evalResult = ev])
    ELSE ToDeliver(s, CurLine(Top(s)), ev)

\* the builtin functions eval and exec, `args.iter().map(|a| a.to_string(ctx)).collect()`
RECURSIVE Collect(_, _)
Collect(args, i) ==
    IF i > Len(args) THEN <<>> ELSE to_string(args[i]) \o Collect(args, i + 1)

\* Eval::execute: the text of the arguments is evaluated
EvalExecute(s, ev) ==
    CASE ev.k = "call" -> ToCall(s, ev)
      [] ev.k = "err" /\ ev.err = "Panic" -> Stop(Abort(s))
      [] ev.k = "err" /\ ev.err # "Panic" -> ToDeliverTo(Faulted(s, ev.err), ev)
      [] OTHER -> ToDeliverTo(s, ev)

\* Exec::execute up to the first line of the text: VimScriptCtx::run sets the deadline
\* and enters run_inner
ExecExecute(s, text) == ToRun([s EXCEPT !.timeout = now + Budget], text, "exec")

\* Exec::execute, `.map(|_| Value::Nil)` on what VimScriptCtx::run returns
ExecResult(out) == IF RunResult(out) = "Ok" THEN ValEv(VNil) ELSE ErrEv(out.err)

\* VimScriptCtx::run_function up to the first line of the body
run_function(s, fname, args) ==
    LET g == NsGet(s.functions, fname)
    IN  IF ~g.ok THEN ToDeliverTo(Faulted(s, g.err), ErrEv(g.err))
        ELSE IF ~g.found
        THEN ToDeliverTo(Faulted(s, "FunctionUndefined"), ErrEv("FunctionUndefined"))
        ELSE IF g.v.builtin = "eval"
        THEN EvalExecute(s, Eval(ExprOf(Collect(args, 1)), s.variables))
        ELSE IF g.v.builtin = "exec" THEN ExecExecute(s, Collect(args, 1))
        ELSE LET b == Bind(enter_local(s.variables), g.v.params, args, 1)
                 body == Frame(g.v.inner, 1, "Function", "Now", "func", FALSE, NoFn)
             IN  IF ~b.ok
                 THEN ToDeliverTo([Faulted(s, b.err) EXCEPT
                                      !.variables = leave_local(b.ns)], ErrEv(b.err))
                 ELSE Stop([s EXCEPT !.variables = b.ns,
                                     !.stack = IF @ = <<>> THEN <<body>>
                                               ELSE Append([@ EXCEPT ![Len(@)].wait =
                                                              Waiting("call", <<>>)], body)])

\* run_line, "for": the next element is bound in a fresh local frame and the body runs
\* over a clone of the tokenizer; after the last element the body is walked in Skip
ForNext(s, line, items) ==
    IF items = <<>>
    THEN Stop(PushBlock(s, "For", "Skip", "skip", <<>>, TRUE, NoFn))
    ELSE LET ins == NsInsert(enter_local(s.variables), line.name, Head(items))
         IN  IF ~ins.ok
             THEN Raise([s EXCEPT !.variables = enter_local(s.variables)], ins.err)
             ELSE Stop(PushBlock([s EXCEPT !.variables = ins.ns],
                                 "For", "Now", "for", Tail(items), FALSE, NoFn))

\* run_line: the handler of the line, ev being the value of its expression when the
\* handler evaluates one
Deliver(s, line, ev) ==
    LET f == Top(s)
        c == line.command
        failed == ev.k = "err"
        rethrow == ToFinish(s, ErrOut(ev.err))
    IN  CASE c = "if" ->
               IF f.run \in {"Skip", "SkipEndIf"}
               THEN Stop(PushBlock(s, "If", "SkipEndIf", "if", <<>>, TRUE, NoFn))
               ELSE IF f.run = "Function" THEN Stop(Capture(s, line))
               ELSE IF failed THEN rethrow
               ELSE Stop(PushBlock(s, "If", IF to_bool(ev.v) THEN "Now" ELSE "Skip",
                                   "if", <<>>, TRUE, NoFn))
          [] c = "elseif" ->
               IF f.section # "If" THEN Raise(s, "UnexpectedKeyword(else)")
               ELSE CASE f.run = "Function" -> Stop(Capture(s, line))
                      [] f.run = "SkipEndIf" -> Stop(s)
                      [] f.run = "Skip" ->
                           IF failed THEN rethrow
                           ELSE Stop(SetRun(s, IF to_bool(ev.v) THEN "Now"
                                               ELSE "SkipEndIf"))
                      [] OTHER -> Stop(SetRun(s, "SkipEndIf"))
          [] c = "else" ->
               IF f.section # "If" THEN Raise(s, "UnexpectedKeyword(else)")
               ELSE CASE f.run = "Function" -> Stop(Capture(s, line))
                      [] f.run = "SkipEndIf" -> Stop(s)
                      [] f.run = "Skip" -> Stop(SetRun(s, "Now"))
                      [] OTHER -> Stop(SetRun(s, "SkipEndIf"))
          [] c = "endif" ->
               IF f.section = "If" THEN ToFinish(s, OkNone)
               ELSE Raise(s, "UnexpectedKeyword(endif)")
          [] c = "for" ->
               IF failed THEN rethrow
               ELSE ToForNext(s, line, into_iter(ev.v))
          [] c = "endfor" ->
               IF f.section = "For" THEN ToFinish(s, OkNone)
               ELSE Raise(s, "UnexpectedKeyword(endfor)")
          [] c = "while" ->
               IF failed THEN rethrow
               ELSE IF to_bool(ev.v)
               THEN Stop(PushBlock(s, "While", "Now", "while", <<>>, FALSE, NoFn))
               ELSE Stop(PushBlock(s, "While", "Skip", "skip", <<>>, TRUE, NoFn))
          [] c = "endwhile" ->
               IF f.section = "While" THEN ToFinish(s, OkNone)
               ELSE Raise(s, "UnexpectedKeyword(endwhile)")
          [] c = "function" ->
               Act(s, line,
                   Stop(PushBlock(s, "Function", "Function", "capture", <<>>, TRUE,
                                  [name |-> line.name, params |-> line.args,
                                   inner |-> <<>>])))
          [] c = "endfunction" ->
               IF f.section = "Function" THEN ToFinish(s, OkNone)
               ELSE Raise(s, "UnexpectedKeyword(endfunction)")
          [] c = "let" ->
               Act(s, line,
                   IF is_some(line.range) THEN Raise(s, "RangeNotSupported")
                   ELSE IF line.bang THEN Raise(s, "BangNotSupported")
                   ELSE IF ~line.haseq THEN Raise(s, "Expected(=)")
                   ELSE IF failed THEN rethrow
                   ELSE LET ins == NsInsert(s.variables, line.name, ev.v)
                        IN  IF ins.ok THEN Stop([s EXCEPT !.variables = ins.ns])
                            ELSE Raise(s, ins.err))
          [] c = "silent" ->
               Act(s, line,
                   IF line.nested = <<>> THEN Stop(s)
                   ELSE IF line.nested[1].command = "<bad>"
                   THEN Raise(s, line.nested[1].params)
                   ELSE ToDispatch(PushLine(set_silent([s EXCEPT !.silence = @ + 1]),
                                            "silent", line.nested[1]),
                                   line.nested[1]))
          [] c = "unsilent" ->
               Act(s, line,
                   IF line.nested = <<>> THEN Stop(s)
                   ELSE IF line.nested[1].command = "<bad>"
                   THEN Raise(s, line.nested[1].params)
                   ELSE ToDispatch(PushLine([s EXCEPT !.silent = FALSE], "unsilent",
                                            line.nested[1]),
                                   line.nested[1]))
          [] c = "execute" ->
               Act(s, line,
                   IF failed THEN rethrow
                   ELSE ToRun(s, to_string(ev.v), "execute"))
          [] c \in {"finish", "exit"} -> Raise(s, "Exit")
          [] c = "return" ->
               IF failed THEN rethrow
               ELSE ToFinish(s, OkSome(ev.v))
          [] OTHER ->
               Act(s, line,
                   IF Has(commands, c) THEN Stop(Invoke(s, line, ev))
                   ELSE Raise(s, "CommandUndefined"))

\* run_line up to the handler: the expression of the line is evaluated when the
\* handler asks for it, and a call of a user function in it enters the function
Evaluated(s, line, ev) ==
    CASE ev.k = "call" -> ToCall(s, ev)
      [] ev.k = "err" /\ ev.err = "Panic" -> Stop(Abort(s))
      [] ev.k = "err" /\ ev.err # "Panic" ->
           ToDeliver(Faulted(s, ev.err), line, ev)
      [] OTHER -> ToDeliver(s, line, ev)
Dispatch(s, line) ==
    IF ~NeedsEval(line, Top(s)) THEN ToDeliver(s, line, NoEv)
    ELSE Evaluated(s, line, Eval(line.expr, s.variables))

\* a faulty loop: after the first replay the body is walked in Skip, as an if would
WhileOnce(s, line) == Stop(PushBlock(s, "While", "Skip", "skip", <<>>, TRUE, NoFn))

\* run_line, "while": a replay of the body has returned, the condition is evaluated again
WhileAgain(s, line) == ToDispatch(s, line)

\* run_inner returns `out`: the activation is left and its caller goes on from the
\* call site it waits at
Finish(s, out) ==
    LET f == Top(s)
        rest == SubSeq(s.stack, 1, Len(s.stack) - 1)
    IN  IF rest = <<>>
        THEN IF s.hostop = "run"
             THEN Stop([s EXCEPT !.stack = <<>>, !.phase = "done",
                                 !.result = RunResult(out)])
             ELSE IF f.src = "text"
             THEN ToDeliverTo([s EXCEPT !.stack = <<>>], ExecResult(out))
             ELSE ToDeliverTo([s EXCEPT !.stack = <<>>,
                                        !.variables = leave_local(s.variables)],
                              OutToEv(out))
        ELSE
        LET p == rest[Len(rest)]
            back == [rest EXCEPT ![Len(rest)].wait = NoWait,
                                 ![Len(rest)].pc = IF f.shared THEN f.pc ELSE @]
            s1 == [s EXCEPT !.stack = back]
        IN  CASE p.wait.op = "call" ->
                   \* run_function: leave_local, then the value or the fault
                   ToDeliver([s1 EXCEPT !.variables = leave_local(s.variables)],
                             CurLine(p), OutToEv(out))
              [] p.wait.op = "exec" ->
                   \* Exec::execute: Nil or the fault, to the line that called exec
                   ToDeliver(s1, CurLine(p), ExecResult(out))
              [] p.wait.op \notin {"call", "exec"} /\ out.k = "Err" -> ToFinish(s1, out)
              [] p.wait.op = "for" /\ out.k = "Ok" ->
                   ToForNext([s1 EXCEPT !.variables = leave_local(s.variables)],
                             CurLine(p), p.wait.items)
              [] p.wait.op = "while" /\ out.k = "Ok" -> WhileAgain(s1, CurLine(p))
              [] p.wait.op = "capture" /\ out.k = "Ok" ->
                   LET ins == NsInsert(s.functions, f.fn.name,
                                       VimFunction(f.fn.params, f.fn.inner))
                   IN  IF ins.ok THEN Stop([s1 EXCEPT !.functions = ins.ns])
                       ELSE Raise(s1, ins.err)
              [] p.wait.op = "silent" /\ out.k = "Ok" ->
                   \* the nested line is done: set_silent, then `self.silence_level -= 1`
                   Stop([set_silent(s1) EXCEPT !.silence = @ - 1])
              [] p.wait.op = "unsilent" /\ out.k = "Ok" -> Stop(set_silent(s1))
              [] OTHER -> Stop(s1)

\* the calls and returns of one turn of run_inner's loop, followed until the next
\* line is due or the host has its answer
NextOf(c) ==
    CASE c.op = "finish" -> Finish(c.s, c.out)
      [] c.op = "dispatch" -> Dispatch(c.s, c.line)
      [] c.op = "deliver" -> Deliver(c.s, c.line, c.ev)
      [] c.op = "deliverTo" -> DeliverTo(c.s, c.ev)
      [] c.op = "for" -> ForNext(c.s, c.line, c.items)
      [] c.op = "call" -> run_function(c.s, c.ev.f, c.ev.args)
      [] c.op = "run" -> Stop(PushText(c.s, ScriptLines(c.text), c.wait))
      [] c.op = "stop" -> Finish(c.s, OkNone)
\* the nested line of `silent` or `unsilent` is done: its run_line returns
NestedDone(s) == s.stack # <<>> /\ Top(s).oneline /\ Top(s).wait = NoWait
\* (each stage is computed once: c ranges over the one value of c0)
RECURSIVE Continue(_)
Continue(c0) ==
    CHOOSE s \in {IF c.op = "stop" /\ ~NestedDone(c.s) THEN c.s
                  ELSE Continue(NextOf(c)) : c \in {c0}} : TRUE

-----------------------------------------------------------------------------
(* The scripts the host runs: the scripts of the tests of lib.rs and their   *)
(* variations                                                               *)

GA == <<"g", ":", "a">>
GL == <<"g", ":", "l">>
GF == <<"g", ":", "F">>
GNope == <<"g", ":", "n", "o", "p", "e">>
X == <<"x">>
VTrue == <<"v", ":", "t", "r", "u", "e">>
VFalse == <<"v", ":", "f", "a", "l", "s", "e">>
VNull == <<"v", ":", "n", "u", "l", "l">>

\* the text `v:true` or `v:false`
B(b) == EVar(IF b THEN VTrue ELSE VFalse)
\* the text of a list literal of integers
IntList(xs) == EList([i \in 1..Len(xs) |-> EInt(xs[i])])

Test(tag) == LCmd("Test", tag)
After == LCmd("After", "")

\* the parameter text that marks the Test of the i-th branch of a chain
BranchTag == <<"b1", "b2", "b3">>

\* if c1 | Test b1 | elseif c2 | Test b2 | ... | else | Test else | endif | After
RECURSIVE ElseIfs(_, _)
ElseIfs(conds, i) ==
    IF i > Len(conds) THEN <<>>
    ELSE <<LElseIf(B(conds[i])), Test(BranchTag[i])>> \o ElseIfs(conds, i + 1)
IfChain(conds, hasElse) ==
    <<LIf(B(conds[1])), Test(BranchTag[1])>> \o ElseIfs(conds, 2)
      \o (IF hasElse THEN <<LElse, Test("else")>> ELSE <<>>)
      \o <<LEndIf, After>>
CondChains == UNION {[1..n -> BOOLEAN] : n \in 1..Len(BranchTag)}

\* if c1 | if c2 | Test n1 | else | Test n2 | endif | Test b1 | else | Test else | endif | After
NestedIf(c1, c2) ==
    <<LIf(B(c1)), LIf(B(c2)), Test("n1"), LElse, Test("n2"), LEndIf, Test("b1"),
      LElse, Test("else"), LEndIf, After>>

IfScripts ==
    {IfChain(conds, hasElse) : conds \in CondChains, hasElse \in BOOLEAN}
      \cup {NestedIf(c1, c2) : c1 \in BOOLEAN, c2 \in BOOLEAN}

\* let g:a = 0 | while g:a < n | Test w | let g:a = g:a + 1 | endwhile | After
WhileCount(n) ==
    <<LLet(GA, EInt(0)), LWhile(ELess(EVar(GA), EInt(n))), Test("w"),
      LLet(GA, EAdd(EVar(GA), EInt(1))), LEndWhile, After>>
WhileScripts == {WhileCount(n) : n \in 0..MaxN}

\* for x in [..] | Test f | endfor | After
ForList(xs) == <<LFor(X, IntList(xs)), Test("f"), LEndFor, After>>
\* let g:l = [..] | for x in g:l | Test f | let g:l = [9] | endfor | After
ForVar(xs) ==
    <<LLet(GL, IntList(xs)), LFor(X, EVar(GL)), Test("f"), LLet(GL, IntList(<<9>>)),
      LEndFor, After>>
Lists == UNION {[1..n -> {1, 2}] : n \in 0..MaxLen}
ForScripts == {ForList(xs) : xs \in Lists} \cup {ForVar(xs) : xs \in Lists}

\* function g:F() | Test f1 | let g:a = 7 | Test f2 | endfunction | call g:F() ... | After
CallF == LCall(ECall(GF, <<>>))
FuncDef(k) ==
    <<LFunction(GF, <<<<>>>>), Test("f1"), LLet(GA, EInt(7)), Test("f2"), LEndFunction>>
      \o [i \in 1..k |-> CallF] \o <<After>>
FuncScripts == {FuncDef(k) : k \in 0..MaxCalls}

\* function g:F(x) | return x + 1 | endfunction
ReturnDef == <<LFunction(GF, <<X>>), LReturn(EAdd(EVar(X), EInt(1))), LEndFunction>>

\* finish or exit at top level, inside an if, a while, a for, and an if inside a while;
\* the lines marked z come later in the text
FinishScripts ==
    UNION {{ <<Test("a"), kw, Test("z")>>,
             <<LIf(B(TRUE)), Test("a"), kw, Test("z"), LEndIf, Test("z")>>,
             <<LWhile(B(TRUE)), kw, Test("z"), LEndWhile, Test("z")>>,
             <<LFor(X, IntList(<<1, 2>>)), Test("a"), kw, Test("z"), LEndFor, Test("z")>>,
             <<LWhile(B(TRUE)), LIf(B(TRUE)), kw, LEndIf, Test("z"), LEndWhile, Test("z")>>
           } : kw \in {LFinish, LExit}}

\* lines that raise a fault, each followed by a later line
FaultScripts ==
    { <<LCall(ECall(GNope, <<>>)), After>>,
      <<LCall(ECall(GNope, <<>>)), LLet(GA, EVar(GNope)), After>>,
      <<LEcho(EVar(GNope)), After>>,
      <<LEcho(EInt(1)), After>>,
      <<LLet(GA, EVar(GNope)), After>>,
      <<LLet(<<"b", ":", "a">>, EInt(1)), After>>,
      <<LLet(X, EInt(1)), After>>,
      <<LLet(<<"q", ":", "a">>, EInt(1)), After>>,
      <<Line("let", Whole, FALSE, "", GA, <<>>, EInt(1), TRUE), After>>,
      <<Line("let", CurrentLine, TRUE, "", GA, <<>>, EInt(1), TRUE), After>>,
      <<Line("let", CurrentLine, FALSE, "", GA, <<>>, ENone, FALSE), After>>,
      <<LIf(EVar(GNope)), After, LEndIf>>,
      <<LWhile(EVar(GNope)), After, LEndWhile>>,
      <<LFor(X, EVar(GNope)), After, LEndFor>>,
      <<LEndIf, After>>, <<LElse, After>>, <<LElseIf(B(TRUE)), After>>,
      <<LEndWhile, After>>, <<LEndFor, After>>, <<LEndFunction, After>>,
      <<LReturn(ENone), After>>,
      <<LLet(GA, EAdd(IntList(<<1>>), EInt(1))), After>>,
      <<LFunction(GF, <<<<>>>>), LCmd("Nope", ""), LEndFunction, CallF, After>>,
      <<LFunction(GF, <<<<>>>>), LFinish, LEndFunction, CallF, After>>,
      <<LFunction(GF, <<<<>>>>), LCmd("Nope", ""), LEndFunction,
        LLet(GA, ECall(GF, <<>>)), After>> }

\* command lines, with and without range and bang, registered or not
CmdLines ==
    {Test("p"), LCmdR("Test", Whole, TRUE, "q"), LCmdR("Test", Range(1, 4), FALSE, ""),
     After, LCmd("Nope", "")}
CmdScripts == {<<l1, l2>> : l1 \in CmdLines, l2 \in CmdLines} \cup {<<Test("p")>>}

\* texts that end inside a block, in each run mode of the block, and texts that do not
OpenScripts ==
    { <<LIf(B(TRUE)), Test("a")>>, <<LIf(B(FALSE)), Test("a")>>,
      <<LIf(B(FALSE)), LIf(B(TRUE)), Test("a"), LEndIf>>,
      <<LWhile(B(FALSE)), Test("a")>>,
      <<LWhile(B(TRUE)), Test("a")>>,
      <<LFor(X, IntList(<<>>)), Test("a")>>, <<LFor(X, IntList(<<1>>)), Test("a")>>,
      <<LFunction(GF, <<<<>>>>), Test("a")>>,
      <<LFunction(GF, <<<<>>>>), LIf(B(TRUE)), Test("a")>>,
      <<LIf(B(TRUE)), LWhile(B(FALSE)), Test("a"), LEndWhile>> }

\* while v:true | endwhile
WhileTrue == <<LWhile(B(TRUE)), LEndWhile>>
\* the scripts whose loop never ends by itself, and that invoke nothing
LoopScripts ==
    { WhileTrue,
      <<LWhile(B(TRUE)), LIf(B(TRUE)), LEndIf, LEndWhile>>,
      <<LLet(GA, EInt(0)), LWhile(ELess(EVar(GA), EInt(1))), LEndWhile>> }

\* for x in [5] | for x in [..] | Test i | let x = 9 | endfor | Test o | endfor | After
NestedFor(xs) ==
    <<LFor(X, IntList(<<5>>)), LFor(X, IntList(xs)), Test("i"), LLet(X, EInt(9)), LEndFor,
      Test("o"), LEndFor, After>>
NestedForScripts == {NestedFor(xs) : xs \in Lists}

\* a for loop whose body raises a fault, at the first element or at a later one
ForFaultScripts ==
    { <<LFor(X, IntList(<<1, 2>>)), LCmd("Nope", ""), LEndFor, After>>,
      <<LFor(X, IntList(<<1, 2>>)), Test("a"), LLet(GA, EVar(GNope)), LEndFor, After>>,
      <<LFor(X, IntList(<<5>>)), LFor(X, IntList(<<1>>)), LEndWhile, LEndFor, LEndFor,
        After>> }

\* silent and unsilent over a nested line that succeeds, raises a fault, ends the run,
\* opens a block, or is itself a silent line
SilentScripts ==
    { <<LSilent(<<Test("s")>>), After>>,
      <<LSilent(<<>>), After>>,
      <<LSilent(<<LSilent(<<Test("s")>>)>>), After>>,
      <<LSilent(<<LIf(B(TRUE))>>), Test("s"), LEndIf, After>>,
      <<LSilent(<<LWhile(B(FALSE))>>), Test("s"), LEndWhile, After>>,
      <<LSilent(<<LCmd("Nope", "")>>), After>>,
      <<LSilent(<<LLet(GA, EVar(GNope))>>), After>>,
      <<LSilent(<<LFinish>>), After>>,
      <<LSilent(<<LEndIf>>), After>>,
      <<LUnsilent(<<Test("s")>>), After>>,
      <<LUnsilent(<<>>), After>>,
      <<LUnsilent(<<LCmd("Nope", "")>>), After>>,
      <<LUnsilent(<<LSilent(<<LExit>>)>>), After>>,
      <<LIf(B(FALSE)), LSilent(<<Test("s")>>), LEndIf, After>> }

\* for x in A | for y in B | Test n | endfor | endfor | After
Y == <<"y">>
NestedLoops(as, bs) ==
    <<LFor(X, IntList(as)), LFor(Y, IntList(bs)), Test("n"), LEndFor, LEndFor, After>>
ProductLists == {<<>>, <<1>>, <<1, 2>>}
NestedLoopScripts == {NestedLoops(as, bs) : as \in ProductLists, bs \in ProductLists}

\* a for or a while loop inside a branch of an if that is not taken; the commands of
\* the loop are marked s
SkippedLoopScripts ==
    { <<LIf(B(FALSE)), LFor(X, IntList(<<1, 2>>)), Test("s"), LEndFor, LEndIf, After>>,
      <<LIf(B(FALSE)), LFor(X, IntList(<<>>)), Test("s"), LEndFor, LEndIf, After>>,
      <<LIf(B(TRUE)), Test("t"), LElse, LFor(X, IntList(<<1>>)), Test("s"), LEndFor,
        LEndIf, After>>,
      <<LLet(GA, EInt(0)), LIf(B(FALSE)), LWhile(ELess(EVar(GA), EInt(1))), Test("s"),
        LLet(GA, EAdd(EVar(GA), EInt(1))), LEndWhile, LEndIf, After>>,
      <<LIf(B(FALSE)), LWhile(B(FALSE)), Test("s"), LEndWhile, LEndIf, After>> }

\* finish, exit or return on a line that is only scanned: in a branch that is not
\* taken, after else of a taken branch, and in the body of a for over an empty list
ScannedEnds == {LFinish, LExit, LReturn(EInt(1))}
ScannedEndScripts ==
    UNION {{ <<LIf(B(FALSE)), kw, LEndIf, Test("t")>>,
             <<LIf(B(TRUE)), LElse, kw, LEndIf, Test("t")>>,
             <<LFor(X, IntList(<<>>)), kw, LEndFor, Test("t")>>
           } : kw \in ScannedEnds}

\* function g:F() | <body> | endfunction | After, the commands of the body marked c
CaptureDef(body) == <<LFunction(GF, <<<<>>>>)>> \o body \o <<LEndFunction, After>>
CaptureBodies ==
    { <<Test("c"), LLet(GA, EInt(1))>>,
      <<LIf(B(TRUE)), Test("c"), LEndIf>>,
      <<LIf(B(FALSE)), Test("c"), LElseIf(B(TRUE)), Test("c"), LEndIf>>,
      <<LIf(B(FALSE)), Test("c"), LElse, Test("c"), LEndIf>>,
      <<LFor(X, IntList(<<1>>)), Test("c"), LEndFor>>,
      <<LWhile(B(FALSE)), Test("c"), LEndWhile>>,
      <<Test("c"), LReturn(EInt(1))>>,
      <<Test("c"), LFinish>> }
CaptureScripts == {CaptureDef(body) : body \in CaptureBodies}

Scripts ==
    IfScripts \cup WhileScripts \cup ForScripts \cup FuncScripts \cup {ReturnDef}
      \cup FinishScripts \cup FaultScripts \cup CmdScripts \cup OpenScripts
      \cup LoopScripts \cup NestedForScripts \cup ForFaultScripts \cup SilentScripts
      \cup NestedLoopScripts \cup SkippedLoopScripts \cup ScannedEndScripts
      \cup CaptureScripts

\* the names the host registers handlers under, and the handlers it has
CmdNames == {"Test", "After"}
Handlers == {"h1", "h2"}

\* the expressions the host evaluates after a run
EvalExprs == {ECall(GF, <<EInt(1)>>), EVar(GA), EAdd(EInt(1), EInt(1))}

-----------------------------------------------------------------------------
(* The state machine *)

\* the interpreter state before a step; no fault has been raised in the step yet
S == [stack |-> stack, variables |-> variables, functions |-> functions,
      calls |-> calls, echoed |-> echoed, phase |-> phase, hostop |-> hostop,
      result |-> result, evalResult |-> evalResult, silence |-> silence_level,
      timeout |-> timeout, silent |-> silent,
      fault |-> [NoFault EXCEPT !.all = fault.all, !.reported = fault.reported]]

\* what a step met: the line, the mode and section of the activation that read it,
\* whether the deadline check ended it, how many invocations there were before, and
\* the deadline the step began under
Met(line, f, late) ==
    [cmd |-> line.command, line |-> line, run |-> f.run, section |-> f.section,
     src |-> f.src, timedout |-> late, before |-> Len(calls),
     frames |-> Len(variables.local), silence |-> silence_level, deadline |-> timeout]
NoMet == [cmd |-> "", line |-> NoLine, run |-> "", section |-> "", src |-> "",
          timedout |-> FALSE, before |-> 0, frames |-> 0, silence |-> 0, deadline |-> 0]

\* the step leaves the interpreter in state s
Becomes(s, met) ==
    /\ stack' = s.stack
    /\ variables' = s.variables
    /\ functions' = s.functions
    /\ calls' = s.calls
    /\ echoed' = s.echoed
    /\ phase' = s.phase
    /\ hostop' = s.hostop
    /\ result' = s.result
    /\ evalResult' = s.evalResult
    /\ fault' = s.fault
    /\ silence_level' = s.silence
    /\ silent' = s.silent
    /\ timeout' = s.timeout
    /\ last' = met

\* what a call of the host on the symbol table was and returned; moved tells that
\* the host has switched an id or a frame since its last write
NoRes == [ok |-> FALSE, err |-> "", v |-> VNil]
NoObs == [op |-> "none", name |-> <<>>, val |-> VNil, res |-> NoRes, moved |-> FALSE]
Moved == [NoObs EXCEPT !.moved = TRUE]
Seen(op, name, val, res, moved) ==
    [op |-> op, name |-> name, val |-> val, res |-> res, moved |-> moved]

\* VimScriptCtx::init, the builtin variables
InitVariables ==
    insert_builtin(insert_builtin(insert_builtin(EmptyNameSpaced,
        VTrue, VBool(TRUE)), VFalse, VBool(FALSE)), VNull, VNil)

\* VimScriptCtx::builtin_functions, the two that run a text
EvalFn == <<"e", "v", "a", "l">>
ExecFn == <<"e", "x", "e", "c">>
InitFunctions ==
    insert_builtin(insert_builtin(EmptyNameSpaced, EvalFn, BuiltinFunction("eval")),
                   ExecFn, BuiltinFunction("exec"))

\* VimScriptCtx::init
Init ==
    /\ phase = "idle"
    /\ hostop = "none"
    /\ commands = [c \in {"call", "echo"} |-> "builtin_" \o c]
    /\ functions = InitFunctions
    /\ variables = InitVariables
    /\ now = 0
    /\ timeout = now + Budget
    /\ stack = <<>>
    /\ script = <<>>
    /\ result = "none"
    /\ evalResult = NoEv
    /\ calls = <<>>
    /\ echoed = <<>>
    /\ fault = NoFault
    /\ last = NoMet
    /\ evals = 0
    /\ silence_level = 0
    /\ silent = FALSE
    /\ obs = NoObs
    /\ heap = <<>>
    /\ ledger = [n |-> 0, m |-> EmptyMap]

\* VimScriptCtx::command: the host registers handler h under name
HostCommand(name, h) ==
    /\ phase = "idle"
    /\ commands' = Put(commands, name, h)
    /\ UNCHANGED <<phase, hostop, functions, variables, timeout, now, stack, script,
                   result, evalResult, calls, echoed, fault, last, evals,
                   silence_level, silent, apivars>>

\* VimScriptCtx::run up to the first line: the deadline is set, run_inner is entered
HostRun(sc) ==
    /\ phase = "idle"
    /\ phase' = "running"
    /\ hostop' = "run"
    /\ script' = sc
    /\ timeout' = now + Budget
    /\ stack' = <<Frame(sc, 1, "Script", "Now", "script", FALSE, NoFn)>>
    /\ UNCHANGED <<commands, functions, variables, now, result, evalResult, calls,
                   echoed, fault, last, evals,
                   silence_level, silent, apivars>>

\* Instant::now() moves on while the interpreter works
Tick ==
    /\ phase \in {"running", "evaluating"}
    /\ now <= timeout
    /\ now < MaxNow
    /\ now' = now + 1
    /\ UNCHANGED <<phase, hostop, commands, functions, variables, timeout, stack,
                   script, result, evalResult, calls, echoed, fault, last, evals,
                   silence_level, silent, apivars>>

Working == phase \in {"running", "evaluating"} /\ stack # <<>>
AtLine == Working /\ Top(S).pc <= Len(Top(S).lines)
NextLine == Top(S).lines[Top(S).pc]

\* run_inner, one turn of its loop: the tokenizer gives a line, the deadline is
\* checked, run_line handles the line
StepLine ==
    LET f == Top(S)
        s0 == [S EXCEPT !.stack[Len(stack)].pc = f.pc + 1]
    IN  Continue(IF NextLine.command = "<bad>" THEN Raise(s0, NextLine.params)
                 ELSE IF TimedOut(timeout, now) THEN Raise(s0, "TimeOut")
                 ELSE Dispatch(s0, NextLine))

Step ==
    /\ \E s \in {StepLine} : Becomes(s, Met(NextLine, Top(S), TimedOut(timeout, now)))
    /\ UNCHANGED <<commands, now, script, evals, apivars>>

\* run_line, one action for each arm of its match
StepIf ==
    /\ AtLine /\ NextLine.command = "if"
    /\ Step
StepElseIf ==
    /\ AtLine /\ NextLine.command = "elseif"
    /\ Step
StepElse ==
    /\ AtLine /\ NextLine.command = "else"
    /\ Step
StepEndIf ==
    /\ AtLine /\ NextLine.command = "endif"
    /\ Step
StepFor ==
    /\ AtLine /\ NextLine.command = "for"
    /\ Step
StepEndFor ==
    /\ AtLine /\ NextLine.command = "endfor"
    /\ Step
StepWhile ==
    /\ AtLine /\ NextLine.command = "while"
    /\ Step
StepEndWhile ==
    /\ AtLine /\ NextLine.command = "endwhile"
    /\ Step
StepFunction ==
    /\ AtLine /\ NextLine.command = "function"
    /\ Step
StepEndFunction ==
    /\ AtLine /\ NextLine.command = "endfunction"
    /\ Step
StepLet ==
    /\ AtLine /\ NextLine.command = "let"
    /\ Step
StepFinish ==
    /\ AtLine /\ NextLine.command \in {"finish", "exit"}
    /\ Step
StepReturn ==
    /\ AtLine /\ NextLine.command = "return"
    /\ Step
StepSilent ==
    /\ AtLine /\ NextLine.command \in {"silent", "unsilent"}
    /\ Step
\* the `_` arm: any other keyword is a command
StepCommand ==
    /\ AtLine /\ NextLine.command \notin Keywords
    /\ Step

\* run_inner past its loop: the tokenizer has no line left
StepEof ==
    /\ Working
    /\ Top(S).pc > Len(Top(S).lines)
    /\ \E out \in {EofOutcome(Top(S).section)} :
       \E s \in {Continue(IF out.k = "Err" THEN Raise(S, out.err) ELSE Finish(S, out))} :
          Becomes(s, Met(Kw("<eof>"), Top(S), FALSE))
    /\ UNCHANGED <<commands, now, script, evals, apivars>>

\* VimScriptCtx::eval past the parse of the expression
HostEvaluated(s, ev) ==
    CASE ev.k = "call" -> ToCall(s, ev)
      [] ev.k = "err" /\ ev.err = "Panic" -> Stop(Abort(s))
      [] ev.k = "err" /\ ev.err # "Panic" ->
           ToDeliverTo(Faulted(s, ev.err), ev)
      [] OTHER -> ToDeliverTo(s, ev)

\* VimScriptCtx::eval, called by the host after a run; the deadline is not reset
HostEval(e) ==
    /\ phase = "done"
    /\ evals < MaxEvals
    /\ evals' = evals + 1
    /\ \E s \in {Continue(HostEvaluated([S EXCEPT !.phase = "evaluating",
                                                     !.hostop = "eval"],
                                           Eval(e, variables)))} :
          Becomes(s, [NoMet EXCEPT !.cmd = "<eval>", !.line = KwE("<eval>", e),
                                   !.frames = Len(variables.local),
                                   !.silence = silence_level])
    /\ UNCHANGED <<commands, now, script, apivars>>

Next ==
    \/ \E name \in CmdNames, h \in Handlers : HostCommand(name, h)
    \/ \E sc \in Scripts : HostRun(sc)
    \/ Tick
    \/ StepIf \/ StepElseIf \/ StepElse \/ StepEndIf
    \/ StepFor \/ StepEndFor \/ StepWhile \/ StepEndWhile
    \/ StepFunction \/ StepEndFunction
    \/ StepLet \/ StepFinish \/ StepReturn \/ StepSilent \/ StepCommand
    \/ StepEof
    \/ \E e \in EvalExprs : HostEval(e)

Spec == Init /\ [][Next]_vars

\* the runs of the scripts that loop: run executes line after line until it returns
\* (the host waits for it), and the clock keeps moving meanwhile
LoopNext ==
    \/ \E name \in CmdNames, h \in Handlers : HostCommand(name, h)
    \/ \E sc \in LoopScripts : HostRun(sc)
    \/ Tick
    \/ StepIf \/ StepEndIf \/ StepWhile \/ StepEndWhile \/ StepLet
LiveSpec ==
    /\ Init /\ [][LoopNext]_vars
    /\ WF_vars(Tick)
    /\ WF_vars(StepIf \/ StepEndIf \/ StepWhile \/ StepEndWhile \/ StepLet)

-----------------------------------------------------------------------------
(* The symbol table under the calls of a host (lib.rs, namespace.rs) *)

\* how many ids of each kind the host switches between
MaxId == 2
\* how many local frames the host pushes at most
MaxFrames == 2
\* how many insertions and removals the host makes
MaxWrites == 2

GX == <<"g", ":", "x">>
BX == <<"b", ":", "x">>
WX == <<"w", ":", "x">>
SX == <<"s", ":", "x">>
QA == <<"q", ":", "a">>
UpperX == <<"X">>
\* the names the host looks up, and the names it stores under
Names == {GX, BX, WX, SX, X, UpperX, VTrue, QA, <<":", "x">>, <<"g">>, <<>>}
StoredNames == {GX, BX, WX, SX, X, UpperX, QA}
\* the value of the host's next write: each write stores a value of its own
NextVal == VInt(ledger.n + 1)
\* Option<Id>
OptIds == {None} \cup {<<i>> : i \in 1..MaxId}

\* the id a name is stored under: the active id of its scope, None for Global
ActiveId(vs, name) ==
    LET r == from_name(name)
    IN  CASE r.ok /\ r.ns = "Buffer" -> vs.buffer_id
          [] r.ok /\ r.ns = "Window" -> vs.window_id
          [] r.ok /\ r.ns = "Script" -> vs.script_id
          [] OTHER -> None
\* the scopes that outlive a call frame
Kept(name) == from_name(name).ok
                 /\ from_name(name).ns \in {"Global", "Buffer", "Window", "Script"}

\* VimScriptCtx::set_buffer, set_window, set_script: both tables switch
HostSetBuffer(id) ==
    /\ phase = "idle"
    /\ variables' = set_buffer(variables, id)
    /\ functions' = set_buffer(functions, id)
    /\ obs' = Moved
    /\ UNCHANGED <<runvars, heap, ledger>>
HostSetWindow(id) ==
    /\ phase = "idle"
    /\ variables' = set_window(variables, id)
    /\ functions' = set_window(functions, id)
    /\ obs' = Moved
    /\ UNCHANGED <<runvars, heap, ledger>>
HostSetScript(id) ==
    /\ phase = "idle"
    /\ variables' = set_script(variables, id)
    /\ functions' = set_script(functions, id)
    /\ obs' = Moved
    /\ UNCHANGED <<runvars, heap, ledger>>

\* NameSpaced::enter_local, NameSpaced::leave_local on the variables
HostEnterLocal ==
    /\ phase = "idle"
    /\ Len(variables.local) < MaxFrames
    /\ variables' = enter_local(variables)
    /\ obs' = Moved
    /\ UNCHANGED <<runvars, functions, heap, ledger>>
HostLeaveLocal ==
    /\ phase = "idle"
    /\ variables' = leave_local(variables)
    /\ obs' = Moved
    /\ UNCHANGED <<runvars, functions, heap, ledger>>

\* VimScriptCtx::insert_var
HostInsertVar(name, val) ==
    /\ phase = "idle"
    /\ ledger.n < MaxWrites
    /\ \E r \in {NsInsert(variables, name, val)} :
          /\ variables' = r.ns
          /\ obs' = Seen("insert_var", name, val, [ok |-> r.ok, err |-> r.err, v |-> VNil],
                         FALSE)
          /\ ledger' = [n |-> ledger.n + 1,
                        m |-> IF r.ok /\ Kept(name)
                              THEN Put(ledger.m, <<name, ActiveId(variables, name)>>, val)
                              ELSE ledger.m]
    /\ UNCHANGED <<runvars, functions, heap>>

\* VimScriptCtx::remove_var
HostRemoveVar(name) ==
    /\ phase = "idle"
    /\ ledger.n < MaxWrites
    /\ \E r \in {NsRemove(variables, name)} :
          /\ variables' = r.ns
          /\ obs' = Seen("remove_var", name, VNil, [ok |-> r.ok, err |-> r.err, v |-> VNil],
                         FALSE)
          /\ ledger' = [n |-> ledger.n + 1,
                        m |-> IF r.ok /\ Kept(name)
                              THEN Del(ledger.m, <<name, ActiveId(variables, name)>>)
                              ELSE ledger.m]
    /\ UNCHANGED <<runvars, functions, heap>>

\* NameSpaced::insert_builtin, as VimScriptCtx::builtin and VimScriptCtx::init call it
HostInsertBuiltin(name, val) ==
    /\ phase = "idle"
    /\ ledger.n < MaxWrites
    /\ variables' = insert_builtin(variables, name, val)
    /\ obs' = Seen("insert_builtin", name, val, NoRes, FALSE)
    /\ ledger' = [ledger EXCEPT !.n = @ + 1]
    /\ UNCHANGED <<runvars, functions, heap>>

\* VimScriptCtx::lookup
HostLookup(name) ==
    /\ phase = "idle"
    /\ obs' = Seen("lookup", name, VNil, lookup(variables, name), obs.moved)
    /\ UNCHANGED <<runvars, functions, variables, heap, ledger>>

NsNext ==
    \/ \E id \in OptIds : HostSetBuffer(id)
    \/ \E id \in OptIds : HostSetWindow(id)
    \/ \E id \in OptIds : HostSetScript(id)
    \/ HostEnterLocal
    \/ HostLeaveLocal
    \/ \E name \in StoredNames : HostInsertVar(name, NextVal)
    \/ \E name \in StoredNames : HostRemoveVar(name)
    \/ HostInsertBuiltin(X, NextVal)
    \/ \E name \in Names : HostLookup(name)

NsSpec == Init /\ [][NsNext]_vars

-----------------------------------------------------------------------------
(* Lists as shared containers (value.rs): a List is an Arc<Mutex<Vec<Value>>>,   *)
(* here the address of its container in the heap                                *)

\* how many containers are allocated at most
MaxCells == 4
\* how many statements the host makes
MaxSteps == 4

GB == <<"g", ":", "b">>
GC == <<"g", ":", "c">>
GN == <<"g", ":", "n">>

\* Value::List(arc): the value is the pointer
VListAt(a) == [ty |-> "List", n |-> a, l |-> <<>>, s |-> <<>>]

\* Value::to_int: [ok, n]; the todo!() arms abort
to_int(v) ==
    IF v.ty \in {"Integer", "Number", "Bool", "Nil"}
    THEN [ok |-> TRUE, n |-> v.n]
    ELSE [ok |-> FALSE, n |-> 0]

\* a faulty contains: only the value itself is compared with the container at a
contains_direct(h, v, a) == v.ty = "List" /\ v.n = a

\* Value::contains: the value is, or holds at some depth, the container at a
RECURSIVE contains(_, _, _)
contains(h, v, a) ==
    /\ v.ty = "List"
    /\ \/ v.n = a
       \/ \E i \in 1..Len(h[v.n]) : contains(h, h[v.n][i], a)

\* Vec::insert(index, element)
VecInsert(xs, index, element) ==
    SubSeq(xs, 1, index) \o <<element>> \o SubSeq(xs, index + 1, Len(xs))

\* Value::insert: [k, err, h], k one of "Ok", "Err", "Panic"
insert(h, self, index, element) ==
    LET out(k, e, h1) == [k |-> k, err |-> e, h |-> h1]
        i == to_int(index)
        \* a negative index becomes max + (-index), past the end: Vec::insert panics
        at == IF i.n >= 0 THEN i.n ELSE Len(h[self.n]) - i.n
    IN  IF self.ty # "List" THEN out("Err", "ExpectedType", h)
        ELSE IF ~i.ok THEN out("Panic", "", h)
        ELSE IF contains(h, element, self.n) THEN out("Err", "IllegalArgument", h)
        ELSE IF at > Len(h[self.n]) THEN out("Panic", "", h)
        ELSE out("Ok", "", [h EXCEPT ![self.n] = VecInsert(@, at, element)])

\* a faulty deep_copy: a new container with the elements of the old one
shallow_copy(h, v) ==
    IF v.ty # "List" THEN [h |-> h, v |-> v]
    ELSE [h |-> Append(h, h[v.n]), v |-> VListAt(Len(h) + 1)]

\* Value::deep_copy: [h, v], the heap with the new containers and the copy
RECURSIVE deep_copy(_, _)
RECURSIVE CopyElements(_, _, _)
CopyElements(h, xs, i) ==
    IF i > Len(xs) THEN [h |-> h, vals |-> <<>>]
    ELSE LET c == deep_copy(h, xs[i])
             rest == CopyElements(c.h, xs, i + 1)
         IN  [h |-> rest.h, vals |-> <<c.v>> \o rest.vals]
deep_copy(h, v) ==
    IF v.ty # "List" THEN [h |-> h, v |-> v]
    ELSE LET r == CopyElements(h, h[v.n], 1)
         IN  [h |-> Append(r.h, r.vals), v |-> VListAt(Len(r.h) + 1)]

\* the element of xs at position k counted from 0, `.nth(k).unwrap_or(&Nil)`
Nth(xs, k) == IF k < Len(xs) THEN xs[k + 1] ELSE VNil
\* `.iter().rev()`
Rev(xs) == [k \in 1..Len(xs) |-> xs[Len(xs) + 1 - k]]

\* Value::index of a value that is not a Str or an Object: [ok, err, v]
index(h, self, idx) ==
    LET i == to_int(idx)
    IN  IF self.ty # "List" \/ ~i.ok THEN [ok |-> FALSE, err |-> "Panic", v |-> VNil]
        ELSE IF i.n < 0
             THEN [ok |-> TRUE, err |-> "", v |-> Nth(Rev(h[self.n]), 1 - i.n)]
             ELSE [ok |-> TRUE, err |-> "", v |-> Nth(h[self.n], i.n)]

\* the containers a value reaches, and the value with its containers written out
RECURSIVE Reach(_, _)
Reach(h, v) ==
    IF v.ty # "List" THEN {}
    ELSE {v.n} \cup UNION {Reach(h, h[v.n][i]) : i \in 1..Len(h[v.n])}
RECURSIVE Deep(_, _)
Deep(h, v) ==
    IF v.ty # "List" THEN v
    ELSE VList([i \in 1..Len(h[v.n]) |-> Deep(h, h[v.n][i])])

ListNames == {GA, GB, GC, GN}
Bound(name) == Has(variables.global, name)
Val(name) == variables.global[name]
\* the list literals and the numbers of the `let` statements
Literals == {<<VInt(1)>>, <<VInt(1), VInt(2), VInt(3)>>}
              \cup (IF Bound(GA) THEN {<<Val(GA)>>} ELSE {})
\* the indexes, the positions of insertion and the elements the host passes
Indexes == {VInt(i) : i \in -4..3}
Positions == {VInt(-1), VInt(0), VInt(1), VNil}
Elements == {VInt(9)} \cup {Val(name) : name \in {n \in {GA, GN} : Bound(n)}}

\* the pairs the host has made and not undone: dst is an alias of src, or a deep
\* copy of it that was snap then
Pair(kind, snap) == [kind |-> kind, snap |-> snap]
Unpaired(m, name) == [key \in {k \in DOMAIN m : name \notin {k[1], k[2]}} |-> m[key]]
\* the copies that an insertion into the container at a changes or links
Touched(m, h, a, element) ==
    {key \in DOMAIN m :
        /\ m[key].kind = "copy"
        /\ \/ a \in Reach(h, Val(key[1]))
           \/ /\ a \in Reach(h, Val(key[2]))
              /\ Reach(h, element) \cap Reach(h, Val(key[1])) # {}}

Stepping == phase = "idle" /\ ledger.n < MaxSteps

\* run("let <name> = [<elements>]"): the literal is a new container
HostLetList(name, xs) ==
    /\ Stepping
    /\ Len(heap) < MaxCells
    /\ heap' = Append(heap, xs)
    /\ variables' = NsInsert(variables, name, VListAt(Len(heap) + 1)).ns
    /\ obs' = Seen("let", name, VListAt(Len(heap) + 1), NoRes, FALSE)
    /\ ledger' = [n |-> ledger.n + 1, m |-> Unpaired(ledger.m, name)]
    /\ UNCHANGED <<runvars, functions>>

\* run("let <name> = <number>")
HostLetNumber(name, v) ==
    /\ Stepping
    /\ variables' = NsInsert(variables, name, v).ns
    /\ obs' = Seen("let", name, v, NoRes, FALSE)
    /\ ledger' = [n |-> ledger.n + 1, m |-> Unpaired(ledger.m, name)]
    /\ UNCHANGED <<runvars, functions, heap>>

\* run("let <dst> = <src>"): parse clones the value it looks up
HostLetVar(dst, src) ==
    /\ Stepping
    /\ Bound(src)
    /\ variables' = NsInsert(variables, dst, Val(src)).ns
    /\ obs' = Seen("let", dst, Val(src), NoRes, FALSE)
    /\ ledger' = [n |-> ledger.n + 1,
                  m |-> IF Val(src).ty = "List" /\ dst # src
                        THEN Put(Unpaired(ledger.m, dst), <<dst, src>>,
                                 Pair("alias", Deep(heap, Val(src))))
                        ELSE Unpaired(ledger.m, dst)]
    /\ UNCHANGED <<runvars, functions, heap>>

\* insert_var(dst, lookup(src)?.deep_copy())
HostDeepCopy(dst, src) ==
    /\ Stepping
    /\ Bound(src)
    /\ \E c \in {deep_copy(heap, Val(src))} :
          /\ Len(c.h) <= MaxCells
          /\ heap' = c.h
          /\ variables' = NsInsert(variables, dst, c.v).ns
          /\ obs' = Seen("deep_copy", dst, c.v, NoRes, FALSE)
          /\ ledger' = [n |-> ledger.n + 1,
                        m |-> IF Val(src).ty = "List" /\ dst # src
                              THEN Put(Unpaired(ledger.m, dst), <<dst, src>>,
                                       Pair("copy", Deep(heap, Val(src))))
                              ELSE Unpaired(ledger.m, dst)]
    /\ UNCHANGED <<runvars, functions>>

\* lookup(name)?.insert(index, element, ctx)
HostInsert(name, idx, element) ==
    /\ Stepping
    /\ Bound(name)
    /\ \E r \in {insert(heap, Val(name), idx, element)} :
          /\ heap' = r.h
          /\ obs' = Seen("insert", name, element,
                         [ok |-> r.k = "Ok", err |-> IF r.k = "Panic" THEN "Panic" ELSE r.err,
                          v |-> idx], FALSE)
          /\ phase' = IF r.k = "Panic" THEN "panicked" ELSE phase
          /\ ledger' = [n |-> ledger.n + 1,
                        m |-> IF r.k = "Ok"
                              THEN [key \in DOMAIN ledger.m
                                          \ Touched(ledger.m, heap, Val(name).n, element)
                                      |-> ledger.m[key]]
                              ELSE ledger.m]
    /\ UNCHANGED <<hostop, commands, timeout, now, stack, script, result, evalResult,
                   calls, echoed, fault, last, evals, silence_level, silent, functions, variables>>

\* lookup(name)?.index(idx, ctx)
HostIndex(name, idx) ==
    /\ Stepping
    /\ Bound(name)
    /\ \E r \in {index(heap, Val(name), idx)} :
          /\ obs' = Seen("index", name, idx, r, FALSE)
          /\ phase' = IF r.err = "Panic" THEN "panicked" ELSE phase
    /\ ledger' = [ledger EXCEPT !.n = @ + 1]
    /\ UNCHANGED <<hostop, commands, timeout, now, stack, script, result, evalResult,
                   calls, echoed, fault, last, evals, silence_level, silent, functions, variables,
                   heap>>

ValNext ==
    \/ \E name \in {GA, GN}, xs \in Literals : HostLetList(name, xs)
    \/ HostLetNumber(GN, VInt(5))
    \/ \E src \in {GA, GN} : HostLetVar(GB, src)
    \/ \E src \in {GA, GN} : HostDeepCopy(GC, src)
    \/ \E name \in ListNames, idx \in Positions, element \in Elements :
          HostInsert(name, idx, element)
    \/ \E name \in ListNames, idx \in Indexes : HostIndex(name, idx)

ValSpec == Init /\ [][ValNext]_vars

\* impl PartialEq for Value, on two values of the heap: each List arm locks the
\* container of the left value, then the container of the right value, and holds both
\* while the elements are compared one after the other (Vec's ==: the lengths first,
\* then the elements up to the first that differ). held is the set of the containers
\* locked so far; a lock on a container that is held is never given: "blocked"
RECURSIVE eq(_, _, _, _)
RECURSIVE SliceEq(_, _, _, _, _)
eq(h, l, r, held) ==
    IF l.ty = "List" /\ r.ty = "List"
    THEN IF l.n \in held \/ r.n \in held \cup {l.n} THEN "blocked"
         ELSE IF Len(h[l.n]) # Len(h[r.n]) THEN "false"
         ELSE SliceEq(h, h[l.n], h[r.n], 1, held \cup {l.n, r.n})
    ELSE IF l.ty = r.ty /\ l = r THEN "true" ELSE "false"
SliceEq(h, xs, ys, i, held) ==
    IF i > Len(xs) THEN "true"
    ELSE CHOOSE out \in
             {IF one = "true" THEN SliceEq(h, xs, ys, i + 1, held) ELSE one :
                 one \in {eq(h, xs[i], ys[i], held)}} : TRUE

\* Mutex::lock on a mutex the thread holds: it does not return; it blocks for ever
\* or it panics
Relock == {"Deadlock", "Panic"}
\* eval("<l> == <r>"), eval("<l> != <r>"): parse clones the two values it looks up,
\* Value::equal compares them, and `!=` negates the answer
HostEqual(l, r, op) ==
    /\ Stepping
    /\ Bound(l) /\ Bound(r)
    /\ \E same \in {eq(heap, Val(l), Val(r), {})} :
       \E out \in (IF same = "blocked" THEN Relock ELSE {same}) :
          /\ obs' = Seen(op, l, Val(r),
                         IF out \in Relock THEN [ok |-> FALSE, err |-> out, v |-> VNil]
                         ELSE [ok |-> TRUE, err |-> "",
                               v |-> VBool((out = "true") = (op = "=="))],
                         FALSE)
          /\ phase' = CASE out = "Panic" -> "panicked"
                        [] out = "Deadlock" -> "blocked"
                        [] OTHER -> phase
    /\ ledger' = [ledger EXCEPT !.n = @ + 1]
    /\ UNCHANGED <<hostop, commands, timeout, now, stack, script, result, evalResult,
                   calls, echoed, fault, last, evals, silence_level, silent, functions,
                   variables, heap>>

EqNext ==
    \/ \E name \in {GA, GN}, xs \in Literals : HostLetList(name, xs)
    \/ HostLetNumber(GN, VInt(5))
    \/ \E src \in {GA, GN} : HostLetVar(GB, src)
    \/ \E l \in {GA, GB}, r \in {GA, GN}, op \in {"==", "!="} : HostEqual(l, r, op)

EqSpec == Init /\ [][EqNext]_vars

-----------------------------------------------------------------------------
(* The host evaluates expressions on a context that has run no script        *)

\* the options of the host, what State::get_option answers from
TS == <<"t", "s">>
Options == [nm \in {TS} |-> VInt(4)]
\* State::get_option of a host that knows the options above
get_option(nm) ==
    IF nm \in DOMAIN Options THEN [ok |-> TRUE, err |-> "", v |-> Options[nm]]
    ELSE [ok |-> FALSE, err |-> "VariableUndefined", v |-> VNil]

\* <lhs> <op> <rhs>, for the operators of the comparison pass
CmpOps == {"<", "<=", ">", ">=", "==", "!="}
Cmp(op, l, r) == [k |-> op, v |-> 0, n |-> <<>>, a |-> <<l, r>>]
\* the operand texts: 0, 1, 2, 'a', 'b', v:true, v:null, [1]
IntOperands == {EInt(i) : i \in 0..2}
Operands ==
    IntOperands \cup {EStr(<<"a">>), EStr(<<"b">>), B(TRUE), EVar(VNull), IntList(<<1>>)}
CmpExprs == {Cmp(op, l, r) : op \in CmpOps, l \in Operands, r \in Operands}
AddExprs == {EAdd(l, r) : l \in Operands, r \in Operands}
\* identifiers: defined or not, of an unknown namespace, and option names after `&`
NameExprs ==
    {EVar(GA), EVar(X), EVar(<<"q", ":", "a">>), EVar(TS), EOption(TS), EOption(GA),
     EAdd(EOption(TS), EInt(1))}
ParseExprs == CmpExprs \cup AddExprs \cup NameExprs

\* VimScriptCtx::insert_var, called by the host before it evaluates
HostDefine(name, val) ==
    /\ phase = "idle"
    /\ ~Has(variables.global, name)
    /\ variables' = NsInsert(variables, name, val).ns
    /\ UNCHANGED <<phase, hostop, commands, functions, timeout, now, stack, script,
                   result, evalResult, calls, echoed, fault, last, evals,
                   silence_level, silent, apivars>>

\* VimScriptCtx::eval, called by the host on a context that runs nothing
HostParse(e) ==
    /\ phase = "idle"
    /\ evals < MaxEvals
    /\ evals' = evals + 1
    /\ \E s \in {Continue(HostEvaluated([S EXCEPT !.phase = "evaluating",
                                                     !.hostop = "eval"],
                                           Eval(e, variables)))} :
          Becomes(s, [NoMet EXCEPT !.cmd = "<eval>", !.line = KwE("<eval>", e),
                                   !.frames = Len(variables.local),
                                   !.silence = silence_level])
    /\ UNCHANGED <<commands, now, script, apivars>>

ExprNext ==
    \/ \E val \in {VInt(3), VStr(<<"a">>)} : HostDefine(GA, val)
    \/ \E e \in ParseExprs : HostParse(e)

ExprSpec == Init /\ [][ExprNext]_vars

-----------------------------------------------------------------------------
(* Texts that a script runs: the `execute` keyword, the builtin functions    *)
(* eval and exec                                                            *)

\* the text `let g:a = 1`
LetText == <<"l", "e", "t", " ", "g", ":", "a", " ", "=", " ", "1">>
\* the texts of a block that holds a `return 5`, one line after the other
IfText ==
    <<"i", "f", " ", "v", ":", "t", "r", "u", "e", "\n", "r", "e", "t", "u", "r", "n",
      " ", "5", "\n", "e", "n", "d", "i", "f">>
WhileText ==
    <<"w", "h", "i", "l", "e", " ", "v", ":", "t", "r", "u", "e", "\n", "r", "e", "t",
      "u", "r", "n", " ", "5", "\n", "e", "n", "d", "w", "h", "i", "l", "e">>
BlockTexts == {IfText, WhileText}
GT == <<"g", ":", "t">>

\* while v:true | <line> | endwhile
Forever(line) == <<LWhile(B(TRUE)), line, LEndWhile>>
\* the loops whose body runs a text
ExecLoop == Forever(LCall(ECall(ExecFn, <<EStr(LetText)>>)))
EvalLoop == Forever(LCall(ECall(EvalFn, <<EStr(<<"1">>)>>)))
ExecuteLoop == Forever(LExecute(EStr(LetText)))
DeadlineLoops == {ExecLoop, EvalLoop, ExecuteLoop}

\* function g:F() | execute g:t | let g:l = 1 | endfunction | let g:a = g:F():
\* the text of g:t, which the host has set, holds the block
ReturnInBlock ==
    <<LFunction(GF, <<<<>>>>), LExecute(EVar(GT)), LLet(GL, EInt(1)), LEndFunction,
      LLet(GA, ECall(GF, <<>>))>>

ExecScripts == DeadlineLoops \cup {ReturnInBlock}

\* run_line, "execute"
StepExecute ==
    /\ AtLine /\ NextLine.command = "execute"
    /\ Step

ExecNext ==
    \/ \E text \in BlockTexts : HostDefine(GT, VStr(text))
    \/ \E sc \in ExecScripts : HostRun(sc)
    \/ Tick
    \/ StepIf \/ StepEndIf \/ StepWhile \/ StepEndWhile
    \/ StepFunction \/ StepEndFunction
    \/ StepLet \/ StepReturn \/ StepCommand \/ StepExecute
    \/ StepEof

ExecSpec == Init /\ [][ExecNext]_vars

-----------------------------------------------------------------------------
(* The calls of a user function with parameters (lib.rs run_function,
   value.rs VimFunction::execute) *)

\* the argument lists of a call of a function of two parameters: none missing, one
\* missing, both missing, one surplus
MaxArgs == 3
ArgLists == {[i \in 1..n |-> EInt(i)] : n \in 0..MaxArgs}
\* function g:F(x, y) | let g:a = x | let g:l = y | endfunction | call g:F(<args>)
ParamCall(args) ==
    <<LFunction(GF, <<X, Y>>), LLet(GA, EVar(X)), LLet(GL, EVar(Y)), LEndFunction,
      LCall(ECall(GF, args))>>
\* function g:F(x, y) | let g:b = x | silent if x | call g:F(0) | let g:a = x
\* let g:l = y | endfunction | call g:F(1, 2): the call of g:F(1, 2) calls g:F(0),
\* which skips to the end; the caller reads x and y after its callee (`if` is run
\* where it is read, `silent` is captured, and the end of the function ends the block)
RecursiveCall ==
    <<LFunction(GF, <<X, Y>>), LLet(GB, EVar(X)), LSilent(<<LIf(EVar(X))>>),
      LCall(ECall(GF, <<EInt(0)>>)), LLet(GA, EVar(X)), LLet(GL, EVar(Y)), LEndFunction,
      LCall(ECall(GF, <<EInt(1), EInt(2)>>))>>
\* function g:F(x) | silent for y in <list> | let g:a = y | endfunction
\* call g:F(1): the body of the function is the body of the loop, which the end of
\* the function ends (`for` is run where it is read, `silent` is captured)
LoopCall(xs) ==
    <<LFunction(GF, <<X>>), LSilent(<<LFor(Y, IntList(xs))>>), LLet(GA, EVar(Y)),
      LEndFunction, LCall(ECall(GF, <<EInt(1)>>))>>
ParamScripts == {ParamCall(args) : args \in ArgLists}
LoopCalls == {LoopCall(xs) : xs \in {<<>>, <<1>>}}
CallScripts == ParamScripts \cup {RecursiveCall} \cup LoopCalls

\* let g:a = 1, and then a `let` that fails, or that is read in another mode
LetThen(lines) == <<LLet(GA, EInt(1))>> \o lines
\* let g:a = 1 | %let g:a = 2;  let! g:a = 2;  let g:a;  let g:a = g:nope
LetFails ==
    {LetThen(<<Line("let", Whole, FALSE, "", GA, <<>>, EInt(2), TRUE)>>),
     LetThen(<<Line("let", CurrentLine, TRUE, "", GA, <<>>, EInt(2), TRUE)>>),
     LetThen(<<Line("let", CurrentLine, FALSE, "", GA, <<>>, ENone, FALSE)>>),
     LetThen(<<LLet(GA, EVar(GNope))>>)}
\* let g:a = 1 | if v:false | let g:a = 2 | endif
LetSkipped == LetThen(<<LIf(B(FALSE)), LLet(GA, EInt(2)), LEndIf>>)
\* let g:a = 1 | function g:F() | let g:a = 2 | endfunction
LetCaptured == LetThen(<<LFunction(GF, <<<<>>>>), LLet(GA, EInt(2)), LEndFunction>>)
\* let g:a = 1 | function g:F() | let g:b = 1 | Nope | endfunction | let g:a = g:F():
\* the right-hand side fails after the function has written g:b
LetCallFails ==
    LetThen(<<LFunction(GF, <<<<>>>>), LLet(GB, EInt(1)), LCmd("Nope", ""), LEndFunction,
              LLet(GA, ECall(GF, <<>>))>>)
LetScripts == LetFails \cup {LetSkipped, LetCaptured, LetCallFails}

CallNext ==
    \/ \E sc \in CallScripts \cup LetScripts : HostRun(sc)
    \/ Tick
    \/ StepIf \/ StepEndIf
    \/ StepFunction \/ StepEndFunction
    \/ StepLet \/ StepSilent \/ StepCommand
    \/ StepEof

CallSpec == Init /\ [][CallNext]_vars

-----------------------------------------------------------------------------
(* The lines a host hands to Line::new *)

\* the greatest line number of a range prefix
MaxLine == 12

\* the lines the host has parsed: a range prefix, a keyword, a bang or none, and a
\* parameter text
Numbers == 0..MaxLine
Prefix(kind, n, m, pat) == [kind |-> kind, n |-> n, m |-> m, pat |-> pat]
Patterns == {<<"p">>, <<"s", "m", "t", "h">>, <<"s", "m", "t", "\\", "/", "h">>, <<>>}
Prefixes ==
    {Prefix("N,M", n, m, <<>>) : n \in Numbers, m \in Numbers}
      \cup {Prefix(kind, n, 0, <<>>) : kind \in {"N,", ",M", "N"}, n \in Numbers}
      \cup {Prefix(kind, 0, 0, <<>>) : kind \in {",", "%", ""}}
      \cup {Prefix("/p/", 0, 0, pat) : pat \in Patterns}
\* the text of a prefix
PrefixText(x) ==
    CASE x.kind = "N,M" -> Digits(x.n) \o <<",">> \o Digits(x.m)
      [] x.kind = "N," -> Digits(x.n) \o <<",">>
      [] x.kind = ",M" -> <<",">> \o Digits(x.n)
      [] x.kind = "N" -> Digits(x.n)
      [] x.kind = "," -> <<",">>
      [] x.kind = "%" -> <<"%">>
      [] x.kind = "/p/" -> <<"/">> \o x.pat \o <<"/">>
      [] OTHER -> <<>>
CommandWords == {<<"T", "e", "s", "t">>, <<"C", "m", "d">>, <<"s", "2">>}
\* the parameter texts, and the blanks that may stand before them
ParamTexts ==
    {<<>>, <<"s", "o", "m", "e", " ", "c", "m", "d">>, <<"a", "b", "c">>,
     <<"/", "a", "b", "c">>, <<"!", "x">>}
MaxBlanks == 2
Blanks(k) == [i \in 1..k |-> " "]
LineText(x, word, bang, k, params) ==
    PrefixText(x) \o word \o (IF bang THEN <<"!">> ELSE <<>>) \o Blanks(k) \o params

\* the host hands a line to the tokenizer of a fresh context, which calls Line::new
\* on it; a parameter text that starts with a letter or `!` is set off by a blank
HostLine(x, word, bang, k, params) ==
    /\ obs = NoObs
    /\ IF params = <<>> THEN TRUE ELSE k = 0 => Head(params) = "/"
    /\ obs' = [op |-> "line", prefix |-> x, word |-> word, bang |-> bang,
               params |-> params, text |-> LineText(x, word, bang, k, params),
               res |-> LineNew(LineText(x, word, bang, k, params))]
    /\ UNCHANGED <<runvars, functions, variables, heap, ledger>>

LineNext ==
    \E x \in Prefixes, word \in CommandWords, bang \in BOOLEAN, k \in 0..MaxBlanks,
       params \in ParamTexts :
       HostLine(x, word, bang, k, params)

LineSpec == Init /\ [][LineNext]_vars

-----------------------------------------------------------------------------
(* expr.rs on the text of an expression: the tokens and the passes that      *)
(* reduce them. The texts hold decimal integers, blanks, parentheses and the *)
(* operators of arithmetic and comparison; they hold no identifier, no       *)
(* string and no `[`, `{`, `/` or `.`, so the passes for calls, lists,       *)
(* indexes and objects find nothing in them.                                 *)

\* enum ExprPeice
Op(s) == [k |-> "Op", s |-> s, v |-> VNil]
Value(v) == [k |-> "Value", s |-> "", v |-> v]

\* the characters of a number token, and the characters that start an operator
NumberChars == {DigitChars[i] : i \in 1..Len(DigitChars)} \cup {"_", "."} \cup Letters
OpChars == {"+", ".", "*", "-", "/", "%", "=", "!", "<", ">", ",", "[", "]", "{", "}",
            "(", ")", ":"}

\* ExprPeice::parse: the first token of a text that is not empty, and the rest
PeiceParse(expr) ==
    CASE is_digit(Head(expr)) ->
           CHOOSE p \in {[err |-> "", tok |-> Value(VInt(parse_number(Upto(expr, i)).n)),
                          rest |-> From(expr, i)] :
                            i \in {IF Find(expr, NumberChars, FALSE, 1) = 0
                                   THEN Len(expr) + 1
                                   ELSE Find(expr, NumberChars, FALSE, 1)}} : TRUE
      [] Head(expr) \in OpChars ->
           IF Len(expr) >= 2 /\ expr[2] = "="
           THEN [err |-> "", tok |-> Op(Text(Upto(expr, 3))), rest |-> From(expr, 3)]
           ELSE [err |-> "", tok |-> Op(Head(expr)), rest |-> Tail(expr)]
      [] ~is_alphanumeric(Head(expr)) /\ Head(expr) \notin OpChars \cup {"'", "\""} ->
           [err |-> "UnexpectedSymbol", tok |-> Op(""), rest |-> <<>>]

\* parse, stage 1: `while !expr.is_empty()`, the rest trimmed after each token
RECURSIVE Tokens(_)
Tokens(expr) ==
    IF expr = <<>> THEN [err |-> "", toks |-> <<>>]
    ELSE CHOOSE r \in
             {IF p.err # "" THEN [err |-> p.err, toks |-> <<>>]
              ELSE CHOOSE q \in {[err |-> more.err, toks |-> <<p.tok>> \o more.toks] :
                                   more \in {Tokens(trim(p.rest))}} : TRUE :
                p \in {PeiceParse(expr)}} : TRUE

\* Vec::remove: the tokens without the i-th
Remove(t, i) == SubSeq(t, 1, i - 1) \o SubSeq(t, i + 1, Len(t))

\* what a pass gives: the tokens, whether it changed them, the fault it raised
\* ("Panic": an index out of range)
Pass(t, changed, err) == [t |-> t, changed |-> changed, err |-> err]

\* ExprPeice::is_operation
is_operation(tok) ==
    tok.k = "Op" /\ tok.s \in {"+", ".", "*", "-", "/", "%", "=", "!", "<", ">",
                               "+=", ".=", "*=", "-=", "/=", "%=", "==", "!=", "<=", ">="}

\* parens: `(` token `)` after nothing or an operation loses its parentheses
\* (i is the index of the code plus one)
RECURSIVE ParensFrom(_, _, _)
ParensFrom(t, i, changed) ==
    IF i > Len(t) - 2 THEN Pass(t, changed, "")
    ELSE IF t[i] = Op("(") /\ t[i + 2] = Op(")") /\ (i = 1 \/ is_operation(t[i - 1]))
    THEN ParensFrom(Remove(Remove(t, i + 2), i), i + 1, TRUE)
    ELSE ParensFrom(t, i + 1, changed)
parens(tokens) == ParensFrom(tokens, 1, FALSE)

\* the closures that parse hands to unary_expr
UnaryDef(op, rhs) == IF op = "-" THEN neg(rhs) ELSE [ok |-> TRUE, v |-> not(rhs)]

\* unary_expr, the `for (op, f) in ops` at index i: the token after the operator is
\* removed before it is known to be a value
RECURSIVE UnaryOps(_, _, _, _, _)
UnaryOps(t, i, ops, k, changed) ==
    IF k > Len(ops) THEN Pass(t, changed, "")
    ELSE IF i > Len(t) THEN Pass(t, changed, "Panic")
    ELSE IF t[IF i = 1 THEN 1 ELSE i - 1].k \notin {"Value", "Var"} /\ t[i] = Op(ops[k])
    THEN IF i + 1 > Len(t) THEN Pass(t, changed, "Panic")
         ELSE IF t[i + 1].k = "Value"
         THEN CHOOSE r \in
                  {IF f.ok THEN Pass([Remove(t, i + 1) EXCEPT ![i] = Value(f.v)], TRUE, "")
                   ELSE Pass(Remove(t, i + 1), changed, "ExpectedType") :
                     f \in {UnaryDef(ops[k], t[i + 1].v)}} : TRUE
         ELSE UnaryOps(Remove(t, i + 1), i, ops, k + 1, changed)
    ELSE UnaryOps(t, i, ops, k + 1, changed)
RECURSIVE UnaryFrom(_, _, _, _)
UnaryFrom(t, i, ops, changed) ==
    IF i > Len(t) - 1 THEN Pass(t, changed, "")
    ELSE CHOOSE r \in {IF q.err # "" THEN q ELSE UnaryFrom(q.t, i + 1, ops, q.changed) :
                         q \in {UnaryOps(t, i, ops, 1, changed)}} : TRUE
unary_expr(tokens, ops) == UnaryFrom(tokens, 1, ops, FALSE)

\* binary_expr, the `for (op, f) in ops` at index i: when tokens[i + 1] is the
\* operator, tokens.remove(i + 2) and then tokens.remove(i) are made before either
\* token is known to be a value, and the loop over ops goes on if one is not
RECURSIVE BinaryOps(_, _, _, _, _)
BinaryOps(t, i, ops, k, changed) ==
    IF k > Len(ops) THEN Pass(t, changed, "")
    ELSE IF i + 1 > Len(t) THEN Pass(t, changed, "Panic")
    ELSE IF t[i + 1] # Op(ops[k]) THEN BinaryOps(t, i, ops, k + 1, changed)
    ELSE IF i + 2 > Len(t) THEN Pass(t, changed, "Panic")
    ELSE IF t[i + 2].k # "Value" THEN BinaryOps(Remove(t, i + 2), i, ops, k + 1, changed)
    ELSE IF t[i].k # "Value"
    THEN BinaryOps(Remove(Remove(t, i + 2), i), i, ops, k + 1, changed)
    ELSE CHOOSE r \in
             {IF f.ok
              THEN Pass([Remove(Remove(t, i + 2), i) EXCEPT ![i] = Value(f.v)], TRUE, "")
              ELSE Pass(Remove(Remove(t, i + 2), i), changed, "ExpectedType") :
                f \in {OpDef(ops[k], [ok |-> TRUE, v |-> t[i].v],
                             [ok |-> TRUE, v |-> t[i + 2].v])}} : TRUE
RECURSIVE BinaryFrom(_, _, _, _)
BinaryFrom(t, i, ops, changed) ==
    IF i > Len(t) - 2 THEN Pass(t, changed, "")
    ELSE CHOOSE r \in {IF q.err # "" THEN q ELSE BinaryFrom(q.t, i + 1, ops, q.changed) :
                         q \in {BinaryOps(t, i, ops, 1, changed)}} : TRUE
binary_expr(tokens, ops) == BinaryFrom(tokens, 1, ops, FALSE)

\* parse, stage 4: the passes of one cycle that can find something in the texts, in
\* the order of the code; `changed |=`, and `?` on the fault of a pass
PassNo(t, k) ==
    CASE k = 1 -> parens(t)
      [] k = 2 -> unary_expr(t, <<"-", "!">>)
      [] k = 3 -> binary_expr(t, <<"*", "/">>)
      [] k = 4 -> binary_expr(t, <<"+", "-">>)
      [] k = 5 -> binary_expr(t, <<".">>)
      [] k = 6 -> binary_expr(t, <<"<", ">", "<=", ">=", "==", "!=">>)
RECURSIVE Passes(_, _)
Passes(r, k) ==
    IF k > 6 \/ r.err # "" THEN r
    ELSE CHOOSE n \in {Passes([q EXCEPT !.changed = r.changed \/ q.changed], k + 1) :
                         q \in {PassNo(r.t, k)}} : TRUE

\* parse, `while parsed.len() > 1`: a cycle that changes nothing is todo!(); then
\* `parsed.remove(0)`, which is out of range when there is no token
RECURSIVE Cycles(_)
Cycles(t) ==
    IF t = <<>> THEN ErrEv("Panic")
    ELSE IF Len(t) = 1
    THEN IF t[1].k = "Value" THEN ValEv(t[1].v) ELSE ErrEv("InvalidExpression")
    ELSE CHOOSE ev \in {IF r.err # "" THEN ErrEv(r.err)
                        ELSE IF ~r.changed THEN ErrEv("Panic")
                        ELSE Cycles(r.t) : r \in {Passes(Pass(t, FALSE, ""), 1)}} : TRUE
parse(expr) ==
    CHOOSE ev \in {IF lexed.err # "" THEN ErrEv(lexed.err) ELSE Cycles(lexed.toks) :
                     lexed \in {Tokens(expr)}} : TRUE

\* the greatest operand of the texts
MaxOperand == 3
Numerals == 1..MaxOperand
Blank == <<" ">>
\* `(a o1 b) o2 c`, `a o1 (b o2 c)`, `a o1 b o2 c`, `(a o1 b)`, `a b`, `(a)`, `-a`, and
\* the empty text
ExprText(shape, a, o1, b, o2, c) ==
    CASE shape = "(ab)c" -> <<"(">> \o Digits(a) \o Blank \o <<o1>> \o Blank \o Digits(b)
                              \o <<")">> \o Blank \o <<o2>> \o Blank \o Digits(c)
      [] shape = "a(bc)" -> Digits(a) \o Blank \o <<o1>> \o Blank \o <<"(">> \o Digits(b)
                              \o Blank \o <<o2>> \o Blank \o Digits(c) \o <<")">>
      [] shape = "abc" -> Digits(a) \o Blank \o <<o1>> \o Blank \o Digits(b) \o Blank
                            \o <<o2>> \o Blank \o Digits(c)
      [] shape = "(ab)" -> <<"(">> \o Digits(a) \o <<o1>> \o Digits(b) \o <<")">>
      [] shape = "a b" -> Digits(a) \o Blank \o Digits(b)
      [] shape = "(a)" -> <<"(">> \o Digits(a) \o <<")">>
      [] shape = "-a" -> <<"-">> \o Digits(a)
      [] shape = "" -> <<>>
Shapes == {"(ab)c", "a(bc)", "abc", "(ab)", "a b", "(a)", "-a", ""}
Operators == {"+", "*"}

\* VimScriptCtx::eval, called by the host on the text of an expression:
\* expr::parse(expr.trim(), ..)
HostEvalText(shape, a, o1, b, o2, c) ==
    /\ obs = NoObs
    /\ obs' = [op |-> "eval", shape |-> shape, a |-> a, o1 |-> o1, b |-> b, o2 |-> o2,
               c |-> c, text |-> ExprText(shape, a, o1, b, o2, c),
               res |-> parse(trim(ExprText(shape, a, o1, b, o2, c)))]
    /\ UNCHANGED <<runvars, functions, variables, heap, ledger>>

ParseNext ==
    \E shape \in Shapes, a \in Numerals, b \in Numerals, c \in Numerals,
       o1 \in Operators, o2 \in Operators :
       HostEvalText(shape, a, o1, b, o2, c)

ParseSpec == Init /\ [][ParseNext]_vars

-----------------------------------------------------------------------------
(* value.rs, enum Names: the name pattern of a `for` line. The texts hold no *)
(* `{`.                                                                      *)

\* enum Names
Single(name) == [k |-> "Single", name |-> name, list |-> <<>>]
NamesList(list) == [k |-> "List", name |-> <<>>, list |-> list]

\* Result<(Names, &str)>; "Diverges": the loop of the parser does not end
NamesOk(names, rest) == [k |-> "Ok", err |-> "", names |-> names, rest |-> rest]
NamesNot(k, err) == [k |-> k, err |-> err, names |-> Single(<<>>), rest |-> <<>>]

Alphanumerics == Letters \cup {DigitChars[i] : i \in 1..Len(DigitChars)}

\* Names::parse. The `loop` of the `[` arm leaves only on what `rem` is, and
\* Names::parse is a function of `rem`: a turn that gives `rem` back as the rest is
\* followed by the same turn for ever, `ret` growing by one name each time.
RECURSIVE NamesParse(_), ListLoop(_, _)
NamesParse(s) ==
    IF s # <<>> /\ Head(s) = "[" THEN ListLoop(Tail(s), <<>>)
    ELSE IF Find(s, Alphanumerics, FALSE, 1) > 0
    THEN NamesOk(Single(Upto(s, Find(s, Alphanumerics, FALSE, 1))),
                From(s, Find(s, Alphanumerics, FALSE, 1)))
    ELSE NamesNot("Err", "Expected(in)")
ListLoop(rem, ret) ==
    IF trim(rem) # <<>> /\ Head(trim(rem)) = "]"
    THEN NamesOk(NamesList(ret), Tail(trim(rem)))
    ELSE IF trim(rem) = <<>> THEN NamesNot("Err", "Expected(])")
    ELSE CHOOSE r \in {IF p.k # "Ok" THEN p
                       ELSE IF p.rest = rem THEN NamesNot("Diverges", "")
                       ELSE ListLoop(p.rest, Append(ret, p.names)) :
                         p \in {NamesParse(rem)}} : TRUE

\* Names::iter: the calls of f, in order: [ok, err, binds]
RECURSIVE NamesIter(_, _), ZipIter(_, _, _)
NamesIter(names, v) ==
    IF names.k = "Single"
    THEN [ok |-> TRUE, err |-> "", binds |-> <<[name |-> names.name, v |-> v]>>]
    ELSE IF v.ty = "List" THEN ZipIter(names.list, v.l, 1)
    ELSE [ok |-> FALSE, err |-> "Expected(List)", binds |-> <<>>]
ZipIter(list, vals, i) ==
    IF i > Len(list) \/ i > Len(vals) THEN [ok |-> TRUE, err |-> "", binds |-> <<>>]
    ELSE CHOOSE r \in {IF ~h.ok THEN h
                       ELSE CHOOSE q \in {[t EXCEPT !.binds = h.binds \o @] :
                                            t \in {ZipIter(list, vals, i + 1)}} : TRUE :
                         h \in {NamesIter(list[i], vals[i])}} : TRUE

\* run_line, "for", up to eval: the pattern, then `in`, then the text of the iterable
ForHead(params) ==
    CHOOSE r \in {IF p.k # "Ok" THEN p
                  ELSE IF Len(trim(p.rest)) >= 2 /\ Upto(trim(p.rest), 3) = <<"i", "n">>
                  THEN [p EXCEPT !.rest = From(trim(p.rest), 3)]
                  ELSE NamesNot("Err", "Expected(in)") :
                    p \in {NamesParse(params)}} : TRUE

\* the most names of a pattern
MaxNames == 3
PatternNames == {<<"a">>, <<"b">>, <<"x", "1">>}
NameLists == UNION {[1..n -> PatternNames] : n \in 0..MaxNames}
Separators == {<<",", " ">>, <<",">>, <<" ">>}
RECURSIVE Joined(_, _, _)
Joined(list, sep, i) ==
    IF i > Len(list) THEN <<>>
    ELSE (IF i > 1 THEN sep ELSE <<>>) \o list[i] \o Joined(list, sep, i + 1)
\* ` in [[1, 2]]` or nothing
InTail(has) ==
    IF has THEN <<" ", "i", "n", " ", "[", "[", "1", ",", " ", "2", "]", "]">> ELSE <<>>
\* `[n1<sep>n2..]` or, for braces = FALSE, the one name n1
PatternText(list, sep, braces, closed, has) ==
    (IF braces
     THEN <<"[">> \o Joined(list, sep, 1) \o (IF closed THEN <<"]">> ELSE <<>>)
     ELSE list[1]) \o InTail(has)
\* the element of the iterable `[[1, 2]]`
OneTwo == VList(<<VInt(1), VInt(2)>>)

\* the host runs a `for` line: the pattern is parsed and the names are bound to the
\* first element
HostFor(list, sep, braces, closed, has) ==
    /\ obs = NoObs
    /\ braces \/ (Len(list) = 1 /\ closed)
    /\ \E head \in {ForHead(PatternText(list, sep, braces, closed, has))} :
          obs' = [op |-> "for", list |-> list, sep |-> sep, braces |-> braces,
                  closed |-> closed, has |-> has,
                  text |-> PatternText(list, sep, braces, closed, has), res |-> head,
                  iter |-> IF head.k = "Ok" THEN NamesIter(head.names, OneTwo)
                           ELSE [ok |-> FALSE, err |-> head.err, binds |-> <<>>]]
    /\ UNCHANGED <<runvars, functions, variables, heap, ledger>>

NamesNext ==
    \E list \in NameLists, sep \in Separators, braces \in BOOLEAN, closed \in BOOLEAN,
       has \in BOOLEAN :
       HostFor(list, sep, braces, closed, has)

NamesSpec == Init /\ [][NamesNext]_vars

-----------------------------------------------------------------------------
(* Properties *)

\* the host has registered a handler for each command the scripts use
Registered == Has(commands, "Test") /\ Has(commands, "After")
\* run has returned
RunDone == phase = "done" /\ hostop = "run"
\* run has returned and the deadline did not end it
Completed == RunDone /\ result # "TimeOut"

\* the invocations as <<name, parameter text>>
Tags(cs) == [i \in 1..Len(cs) |-> <<cs[i].name, cs[i].params>>]
T(tag) == <<"Test", tag>>
A == <<"After", "">>
IsPrefix(xs, ys) == Len(xs) <= Len(ys) /\ xs = SubSeq(ys, 1, Len(xs))
RECURSIVE Repeat(_, _)
Repeat(xs, n) == IF n = 0 THEN <<>> ELSE xs \o Repeat(xs, n - 1)

\* the first true condition of a chain, 0 when there is none
RECURSIVE FirstTrue(_, _)
FirstTrue(conds, i) ==
    IF i > Len(conds) THEN 0 ELSE IF conds[i] THEN i ELSE FirstTrue(conds, i + 1)
\* what an if chain should invoke: the first true branch, else the else branch
ExpectedIf(conds, hasElse) ==
    (IF FirstTrue(conds, 1) # 0 THEN <<T(BranchTag[FirstTrue(conds, 1)])>>
     ELSE IF hasElse THEN <<T("else")>> ELSE <<>>) \o <<A>>
ExpectedNested(c1, c2) ==
    (IF c1 THEN <<T(IF c2 THEN "n1" ELSE "n2"), T("b1")>> ELSE <<T("else")>>) \o <<A>>

\* C1: an if / elseif* / else? / endif chain reached in execute mode invokes the
\* commands of exactly the first branch whose condition is true (the else branch when
\* none is), no command of another branch, and goes on with the line after endif; an if
\* nested in a branch that is not taken is consumed without executing.
IfTakesFirstTrueBranch ==
    Registered /\ Completed =>
      /\ \A conds \in CondChains, hasElse \in BOOLEAN :
            script = IfChain(conds, hasElse) =>
               result = "Ok" /\ Tags(calls) = ExpectedIf(conds, hasElse)
      /\ \A c1 \in BOOLEAN, c2 \in BOOLEAN :
            script = NestedIf(c1, c2) =>
               result = "Ok" /\ Tags(calls) = ExpectedNested(c1, c2)

\* C2: `let g:a = 0 | while g:a < N | Test | let g:a = g:a + 1 | endwhile` invokes
\* Test exactly N times (never more at any moment), the condition being evaluated
\* again before every iteration, and the line after endwhile runs once afterwards.
WhileRunsNTimes ==
    \A n \in 0..MaxN :
       script = WhileCount(n) /\ Registered /\ hostop = "run" =>
          /\ IsPrefix(Tags(calls), Repeat(<<T("w")>>, n) \o <<A>>)
          /\ Completed =>
               /\ result = "Ok"
               /\ Tags(calls) = Repeat(<<T("w")>>, n) \o <<A>>
               /\ lookup(variables, GA).v = VInt(n)
WhileRanMaxN ==
    /\ script = WhileCount(MaxN) /\ Registered /\ RunDone /\ result = "Ok"
    /\ Len(calls) = MaxN + 1

\* C3: `for x in L | Test | endfor` invokes Test once for each element of L, the k-th
\* time with x bound to the k-th element L had when the iterable was evaluated (also
\* when the body rebinds the variable L was read from); with an empty list Test is not
\* invoked; the line after endfor runs once, with x no longer bound.
ForBindsEachElement ==
    \A xs \in Lists :
       script \in {ForList(xs), ForVar(xs)} /\ Registered /\ hostop = "run" =>
          /\ IsPrefix(Tags(calls), Repeat(<<T("f")>>, Len(xs)) \o <<A>>)
          /\ \A k \in 1..Len(calls) :
                IF k <= Len(xs)
                THEN calls[k].x.ok /\ calls[k].x.v = VInt(xs[k])
                ELSE ~calls[k].x.ok
          /\ Completed =>
               result = "Ok" /\ Tags(calls) = Repeat(<<T("f")>>, Len(xs)) \o <<A>>
ForRanOverRebound ==
    \E xs \in Lists :
       /\ Len(xs) = MaxLen
       /\ script = ForVar(xs) /\ Registered /\ RunDone /\ result = "Ok"
       /\ Len(calls) = MaxLen + 1
       /\ lookup(variables, GL).v = VList(<<VInt(9)>>)

\* the text of FuncDef up to `endfunction` has been read, and no more
AtDefinition == stack # <<>> /\ stack[1].pc <= Len(FuncDef(0))

\* C4: defining `function g:F() | Test | let | Test | endfunction` invokes no command
\* and changes no variable; each later `call g:F()` invokes the commands of the body
\* once, in order, so k calls give k invocations of each.
FunctionDefinedNotRun ==
    \A k \in 0..MaxCalls :
       script = FuncDef(k) /\ Registered /\ hostop = "run" =>
          /\ IsPrefix(Tags(calls), Repeat(<<T("f1"), T("f2")>>, k) \o <<A>>)
          /\ AtDefinition => calls = <<>> /\ variables = InitVariables
          /\ Completed =>
               /\ result = "Ok"
               /\ Tags(calls) = Repeat(<<T("f1"), T("f2")>>, k) \o <<A>>
               /\ NsGet(functions, GF).found
               /\ NsGet(functions, GF).v.inner
                    = <<Test("f1"), LLet(GA, EInt(7)), Test("f2")>>
FunctionCalledMaxTimes ==
    /\ script = FuncDef(MaxCalls) /\ Registered /\ RunDone /\ result = "Ok"
    /\ Len(calls) = MaxCalls + MaxCalls + 1
    /\ lookup(variables, GA).v = VInt(7)

\* C5: after `function g:F(x) | return x + 1 | endfunction` has run, run has returned
\* Ok, and evaluating `g:F(1)` gives Integer(2).
ReturnDefDefines ==
    script = ReturnDef =>
       /\ Completed => result = "Ok"
       /\ (phase = "done" /\ hostop = "eval" /\ last.line.expr = ECall(GF, <<EInt(1)>>))
            => evalResult = ValEv(VInt(2))

\* the last step executed a line of the text passed to run, in execute mode, and the
\* deadline check let it through
RanLine == hostop = "run" /\ last.run = "Now" /\ ~last.timedout

\* C6: finish or exit executed in execute mode at any depth of the text passed to run
\* (top level, inside if, while, for) ends the run at once: no later line is executed
\* and run returns Ok.
FinishEndsRun ==
    /\ (RanLine /\ last.cmd \in {"finish", "exit"} /\ last.src = "script") =>
          /\ phase = "done" /\ stack = <<>> /\ result = "Ok"
          /\ Len(calls) = last.before
    /\ (script \in FinishScripts /\ hostop = "run") =>
          /\ \A i \in 1..Len(calls) : calls[i].params # "z"
          /\ Completed /\ Registered => result = "Ok"
FinishedInsideWhileIf ==
    /\ RunDone /\ result = "Ok" /\ script \in FinishScripts
    /\ script[1].command = "while"
    /\ last.cmd = "finish" /\ last.section = "If"

\* the faults that are neither the Exit signal nor an abort of the process
IsError(e) == e \notin {"", "Exit", "Panic"}

\* C7 as stated: every fault other than Exit raised while a line executes, also one
\* raised while the expression of the builtin call or echo is evaluated, makes run
\* return Err with that fault; run returns Ok only when no fault or only Exit was raised.
EveryFaultFailsRun ==
    hostop = "run" =>
       /\ IsError(fault.err) => phase = "done" /\ result = fault.err
       /\ (phase = "done" /\ result = "Ok") => \A e \in fault.all : ~IsError(e)

\* C7, amended: a fault other than Exit makes run return Err with that fault, unless
\* it was raised while the builtin call or echo evaluated its expression: the handler
\* reports that fault (Exit included) through State::echo and the next line runs. run
\* returns Ok only when every fault raised was Exit or was reported by call or echo.
FaultFailsRunUnlessReported ==
    hostop = "run" =>
       /\ (IsError(fault.err) /\ ~fault.caught) =>
             phase = "done" /\ stack = <<>> /\ result = fault.err
       /\ fault.caught =>
             /\ phase = "running" /\ stack # <<>>
             /\ CurLine(Top(S)).command \in {"call", "echo"}
             /\ echoed # <<>> /\ echoed[Len(echoed)] = fault.err
       /\ (phase = "done" /\ result = "Ok") =>
             \A e \in fault.all : ~IsError(e) \/ e \in fault.reported
ReportedThenFailed ==
    /\ RunDone /\ result = "VariableUndefined" /\ fault.err = "VariableUndefined"
    /\ "FunctionUndefined" \in fault.reported
    /\ echoed = <<"FunctionUndefined">>

\* C8: `while v:true | endwhile` does not run forever: the deadline is compared with
\* the clock before every line, so run returns Err(TimeOut) once the clock is past it.
WhileTrueTimesOut ==
    /\ [](script \in LoopScripts /\ RunDone => result = "TimeOut" /\ now > timeout)
    /\ (script \in LoopScripts /\ phase = "running")
          ~> (phase = "done" /\ result = "TimeOut")
WhileTrueTimedOut ==
    script = WhileTrue /\ RunDone /\ result = "TimeOut" /\ last.cmd = "endwhile"

\* the last step executed a command line that is not the builtin call or echo
RanCommand ==
    RanLine /\ last.cmd \notin Keywords \cup {"", "<eof>", "<eval>", "call", "echo"}
\* what the handler registered under the name of the line is given
Given(line) ==
    [name |-> line.command, handler |-> commands[line.command], range |-> line.range,
     bang |-> line.bang, params |-> line.params]
Got(call) ==
    [name |-> call.name, handler |-> call.handler, range |-> call.range,
     bang |-> call.bang, params |-> call.params]
InvokedOnce ==
    /\ Len(calls) = last.before + 1
    /\ Got(calls[Len(calls)]) = Given(last.line)

\* C9 as stated: a command line in execute mode invokes the handler registered under
\* exactly its name once, with the range, bang and parameter text of the line; with no
\* handler under the name run returns CommandUndefined and no later line is executed.
CommandDispatch ==
    RanCommand =>
       IF Has(commands, last.cmd) THEN InvokedOnce
       ELSE /\ Len(calls) = last.before
            /\ phase = "done" /\ stack = <<>> /\ result = "CommandUndefined"

\* C9, amended: as stated, and `Test | Test` invokes Test twice; but an unregistered
\* name in a function entered through the builtin call or echo is reported through
\* State::echo and the script goes on. In the text passed to run it ends the run.
CommandDispatchUnlessReported ==
    /\ RanCommand =>
          IF Has(commands, last.cmd) THEN InvokedOnce
          ELSE /\ Len(calls) = last.before
               /\ fault.err = "CommandUndefined"
               /\ last.src = "script" => ~fault.caught
               /\ IF fault.caught
                  THEN phase = "running" /\ echoed[Len(echoed)] = "CommandUndefined"
                  ELSE phase = "done" /\ stack = <<>> /\ result = "CommandUndefined"
    /\ (script = <<Test("p"), Test("p")>> /\ Has(commands, "Test") /\ Completed) =>
          result = "Ok" /\ Tags(calls) = <<T("p"), T("p")>>
RangedBangCommandRan ==
    /\ RanCommand /\ last.line = LCmdR("Test", Whole, TRUE, "q") /\ Len(calls) = 2
    /\ calls[2].handler = "h2" /\ calls[2].range = Whole /\ calls[2].bang

\* C10: a text that ends inside an if, while, for or function block makes run return
\* UnexpectedEof, in every run mode of the block; the end of the text at Script level
\* is success.
OpenBlockIsUnexpectedEof ==
    /\ (hostop = "run" /\ last.cmd = "<eof>") =>
          IF last.section = "Script"
          THEN phase = "done" /\ result = "Ok"
          ELSE /\ fault.err = "UnexpectedEof"
               /\ last.src = "script" => phase = "done" /\ result = "UnexpectedEof"
    /\ (script \in OpenScripts /\ Registered /\ Completed) => result = "UnexpectedEof"
EofWhileCapturing ==
    /\ RunDone /\ result = "UnexpectedEof" /\ last.cmd = "<eof>"
    /\ last.run = "Function" /\ last.section = "Function"


\* C11: after run or eval returns, with Ok or with any error (also one raised inside
\* the body of a for loop), the number of local frames equals the number before the
\* call: every frame pushed for a function call or a loop iteration has been popped.
LocalFramesBalanced ==
    /\ RunDone => Len(variables.local) = 0
    /\ (phase = "done" /\ hostop = "eval") => Len(variables.local) = last.frames

\* C13: a binding made under an unprefixed lower-case name in a local frame is gone
\* after the matching leave_local: once `for x in L ... endfor` has completed, lookup
\* of x fails with VariableUndefined, unless an outer frame bound x already, whose
\* value is then visible unchanged (also when the body of the loop assigned x).
LoopVariableGone ==
    (Registered /\ hostop = "run") =>
       \A k \in 1..Len(calls) :
          /\ (script \in ForScripts \cup NestedForScripts /\ calls[k].name = "After") =>
                ~calls[k].x.ok /\ calls[k].x.err = "VariableUndefined"
          /\ (script \in NestedForScripts /\ calls[k].params = "o") =>
                calls[k].x.ok /\ calls[k].x.v = VInt(5)
NestedLoopVariableRestored ==
    /\ script = NestedFor(<<1, 2>>) /\ Registered /\ RunDone /\ result = "Ok"
    /\ calls[3].params = "o" /\ calls[3].x.ok /\ calls[3].x.v = VInt(5)
    /\ calls[Len(calls)].name = "After" /\ ~calls[Len(calls)].x.ok

\* C18: after a `silent <line>` or `unsilent <line>` statement has finished, the
\* nested line having succeeded or raised a fault (Exit included), the silence depth
\* has the value it had before the statement.
SilenceDepthRestored ==
    /\ (hostop = "run" /\ last.cmd \in {"silent", "unsilent"} /\ last.run = "Now"
          /\ ~last.timedout /\ \A i \in 1..Len(stack) : ~stack[i].oneline) =>
          silence_level = last.silence
    /\ RunDone => silence_level = 0

-----------------------------------------------------------------------------
(* Properties of the symbol table *)

Found(v) == [ok |-> TRUE, err |-> "", v |-> v]
Failed(e) == [ok |-> FALSE, err |-> e, v |-> VNil]
\* the names the host stored under the scope ns and did not remove
StoredIn(ns) == {key \in DOMAIN ledger.m : from_name(key[1]).ns = ns}

\* C12: a value inserted under a g: name (or any name of the global scope) is
\* what lookup of that name returns, whatever buffer, window and script ids the host
\* has set or unset and whatever frames it has pushed and popped since, until the
\* name is written again or removed.
GlobalVisible ==
    /\ \A key \in StoredIn("Global") : lookup(variables, key[1]) = Found(ledger.m[key])
    /\ (obs.op = "lookup" /\ <<obs.name, None>> \in StoredIn("Global")) =>
          obs.res = Found(ledger.m[<<obs.name, None>>])
GlobalSeenAfterSwitch ==
    /\ obs.op = "lookup" /\ obs.name = GX /\ obs.moved
    /\ obs.res = Found(VInt(1))
    /\ variables.buffer_id # None /\ Len(variables.local) > 0

\* C14: after insert_var(name, v) succeeds, lookup(name) under the same active ids
\* returns v, for g:, b:, w:, s: and unprefixed local names; and a value stored
\* under b:x, w:x or s:x while one id is active is not returned while another id
\* of that kind is active.
ScopedInsertThenLookup ==
    /\ (obs.op = "insert_var" /\ obs.res.ok) =>
          lookup(variables, obs.name) = Found(obs.val)
    /\ \A key \in DOMAIN ledger.m :
          ActiveId(variables, key[1]) = key[2] =>
             lookup(variables, key[1]) = Found(ledger.m[key])
    /\ \A name \in {BX, WX, SX} :
          (/\ ActiveId(variables, name) # None
           /\ <<name, ActiveId(variables, name)>> \notin DOMAIN ledger.m) =>
             ~lookup(variables, name).ok

NotDefined == {"NamespaceNotDefined(Buffer)", "NamespaceNotDefined(Window)",
               "NamespaceNotDefined(Script)", "NamespaceNotDefined(Local)"}

\* C15: a lookup or an insertion of a b:, w: or s: name fails with
\* NamespaceNotDefined of that scope exactly when the id of that scope is unset;
\* the ids of the other two scopes have no influence.
NotDefinedIffIdUnset ==
    (obs.op \in {"lookup", "insert_var"}
        /\ from_name(obs.name).ns \in {"Buffer", "Window", "Script"}) =>
       IF ActiveId(variables, obs.name) = None
       THEN obs.res = Failed("NamespaceNotDefined(" \o from_name(obs.name).ns \o ")")
       ELSE obs.res.err \notin NotDefined

\* the greatest element of a non-empty set of numbers
Greatest(xs) == CHOOSE x \in xs : \A y \in xs : y <= x
\* the frames that bind name
Binders(name) == {i \in 1..Len(variables.local) : name \in DOMAIN variables.local[i]}

\* C16: lookup of an unprefixed lower-case name returns the binding of the
\* innermost frame that binds it (so the next enclosing one once that frame is
\* popped); when no frame binds it, the builtin entry of that name when there is
\* one, and VariableUndefined otherwise.
LocalLookupInnermostFirst ==
    (obs.op = "lookup" /\ obs.name \in {X, <<"g">>, <<>>}) =>
       obs.res = IF Binders(obs.name) # {}
                 THEN Found(variables.local[Greatest(Binders(obs.name))][obs.name])
                 ELSE IF obs.name \in DOMAIN variables.builtin
                      THEN Found(variables.builtin[obs.name])
                      ELSE Failed("VariableUndefined")
InnerFrameShadows ==
    /\ obs.op = "lookup" /\ obs.name = X
    /\ Binders(X) = {1, 2}
    /\ variables.local[1][X] # variables.local[2][X]
    /\ obs.res = Found(variables.local[2][X])

\* the scope the prefix of a name stands for
ScopeOf(name) ==
    LET prefixed(c) == Len(name) >= 2 /\ name[1] = c /\ name[2] = ":"
    IN  CASE prefixed("g") -> "Global"
          [] prefixed("b") -> "Buffer"
          [] prefixed("w") -> "Window"
          [] prefixed("s") -> "Script"
          [] prefixed("v") -> "Builtin"
          [] OTHER -> IF ":" \in {name[i] : i \in 1..Len(name)} THEN "UnknownNamespace"
                      ELSE IF name # <<>> /\ name[1] \in UpperCase THEN "Global"
                      ELSE "Local"
InMap(m, name) == IF name \in DOMAIN m THEN Found(m[name]) ELSE Failed("VariableUndefined")

\* C17: the scope of a name is given by its prefix alone: g: Global, b: Buffer,
\* w: Window, s: Script, v: Builtin, any other name with a colon is an
\* UnknownNamespace error, a name without a colon is Global when it starts with an
\* upper-case letter and Local otherwise, whatever ids are active and whatever
\* frames are pushed.
PrefixDispatch ==
    (obs.op \in {"lookup", "insert_var", "remove_var"}) =>
       /\ from_name(obs.name) = [ok |-> ScopeOf(obs.name) # "UnknownNamespace",
                                 ns |-> ScopeOf(obs.name)]
       /\ (obs.res.err = "UnknownNamespace") <=> (ScopeOf(obs.name) = "UnknownNamespace")
       /\ (obs.op = "lookup" /\ ScopeOf(obs.name) = "Global") =>
             obs.res = InMap(variables.global, obs.name)
       /\ (obs.op = "lookup" /\ ScopeOf(obs.name) = "Builtin") =>
             obs.res = InMap(variables.builtin, obs.name)
       /\ (obs.op = "insert_var" /\ obs.res.ok /\ ScopeOf(obs.name) = "Global") =>
             InMap(variables.global, obs.name) = Found(obs.val)
       /\ (obs.op = "insert_var" /\ ScopeOf(obs.name) = "Local") =>
             IF variables.local = <<>> THEN obs.res = Failed("NamespaceNotDefined(Local)")
             ELSE InMap(variables.local[Len(variables.local)], obs.name) = Found(obs.val)
UpperCaseIsGlobalInsideFrame ==
    /\ obs.op = "lookup" /\ obs.name = UpperX /\ obs.res.ok
    /\ variables.local # <<>> /\ variables.global[UpperX] = obs.res.v
    /\ variables.window_id # None

-----------------------------------------------------------------------------
(* Properties of the List values *)

\* the elements of the list a name is bound to
ElementsOf(name) == heap[Val(name).n]
\* the last call inserted obs.val, through one of the two names, at position obs.res.v
InsertedThrough(dst, src) ==
    obs.op = "insert" /\ obs.res.ok /\ obs.name \in {dst, src}

\* C19: after `let g:b = g:a` with a List in g:a both names denote one container,
\* so that an element inserted through either is seen through the other; a value
\* made by deep_copy shares no container with the original at any depth and stays
\* what it was when the original is inserted into later.
AliasSharesCopyDoesNot ==
    \A key \in DOMAIN ledger.m :
       IF ledger.m[key].kind = "alias"
       THEN /\ Val(key[1]) = Val(key[2])
            /\ Deep(heap, Val(key[1])) = Deep(heap, Val(key[2]))
            /\ InsertedThrough(key[1], key[2]) =>
                  /\ ElementsOf(key[1])[to_int(obs.res.v).n + 1] = obs.val
                  /\ ElementsOf(key[2])[to_int(obs.res.v).n + 1] = obs.val
       ELSE /\ Reach(heap, Val(key[1])) \cap Reach(heap, Val(key[2])) = {}
            /\ Deep(heap, Val(key[1])) = ledger.m[key].snap
InsertSeenByAliasNotByCopy ==
    /\ <<GB, GA>> \in DOMAIN ledger.m /\ ledger.m[<<GB, GA>>].kind = "alias"
    /\ <<GC, GA>> \in DOMAIN ledger.m /\ ledger.m[<<GC, GA>>].kind = "copy"
    /\ InsertedThrough(GB, GB) /\ obs.val = VInt(9)
    /\ Deep(heap, Val(GA)) = VList(<<VInt(9), VInt(1)>>)
    /\ Deep(heap, Val(GB)) = VList(<<VInt(9), VInt(1)>>)
    /\ Deep(heap, Val(GC)) = VList(<<VInt(1)>>)

\* C20: indexing a List of length n with the integer i gives element i when
\* 0 <= i < n, element n+i when -n <= i < 0 (-1 is the last element) and Nil for any
\* other i; indexing a value, indexable or not, neither fails nor aborts.
ListIndexTotal ==
    obs.op = "index" =>
       /\ obs.res.ok
       /\ Val(obs.name).ty = "List" =>
             LET xs == ElementsOf(obs.name)
                 n == Len(xs)
                 i == obs.val.n
             IN  obs.res.v = IF 0 <= i /\ i < n THEN xs[i + 1]
                             ELSE IF -n <= i /\ i < 0 THEN xs[n + i + 1]
                             ELSE VNil

\* C25: `for x in A | for y in B | Test | endfor | endfor` invokes Test exactly
\* |A| * |B| times: the walk that skips to the outer endfor after the last iteration
\* executes nothing.
NestedForRunsProduct ==
    \A as \in ProductLists, bs \in ProductLists :
       (script = NestedLoops(as, bs) /\ Registered /\ Completed) =>
          /\ result = "Ok"
          /\ Tags(calls) = Repeat(<<T("n")>>, Len(as) * Len(bs)) \o <<A>>

\* C26: a for or a while loop that stands in a branch of an if that is not taken is
\* not executed: none of its commands is invoked, its loop variable and the variables
\* its body assigns are left alone, and the line after endif runs.
SkippedLoopNotExecuted ==
    (script \in SkippedLoopScripts /\ Registered /\ hostop = "run") =>
       /\ \A k \in 1..Len(calls) : calls[k].params # "s"
       /\ Has(variables.global, GA) => variables.global[GA] = VInt(0)
       /\ Completed => result = "Ok" /\ calls[Len(calls)].name = "After"

\* C27: a finish, exit or return line that is only scanned (in a branch of an if that
\* is not taken, or in the walk to endfor of a loop over an empty list) has no effect:
\* the Test after the block is invoked once and run returns Ok.
ScannedEndHasNoEffect ==
    (script \in ScannedEndScripts /\ Registered /\ Completed) =>
       result = "Ok" /\ Tags(calls) = <<T("t")>>

\* C28: while a function is captured, every line up to the matching endfunction (if,
\* elseif, else, endif, for, endfor, while, endwhile, return and finish included) is
\* appended to the function without being executed, and the definition succeeds.
FunctionBodyCaptured ==
    \A body \in CaptureBodies :
       (script = CaptureDef(body) /\ Registered /\ Completed) =>
          /\ result = "Ok"
          /\ Tags(calls) = <<A>>
          /\ NsGet(functions, GF).found
          /\ NsGet(functions, GF).v.inner = body

\* the host has the answer of eval for the expression e
Parsed(e) == hostop = "eval" /\ last.cmd = "<eval>" /\ last.line.expr = e
\* the integer order, for each operator of the comparison pass
IntOrder(op, i, j) ==
    CASE op = "<" -> i < j
      [] op = "<=" -> i <= j
      [] op = ">" -> i > j
      [] op = ">=" -> i >= j
      [] op = "==" -> i = j
      [] op = "!=" -> i # j
\* the type of the value an operand text stands for
TypeOf(e) ==
    CASE e.k = "int" -> "Integer"
      [] e.k = "str" -> "Str"
      [] e.k = "list" -> "List"
      [] e = B(TRUE) -> "Bool"
      [] OTHER -> "Nil"

\* C21: `<`, `<=`, `>` and `>=` between operands of different types evaluate to
\* Bool(false) and never fail; between two Integers the six comparison operators
\* agree with the order of the integers.
ComparisonTotalAndOrdered ==
    \A op \in CmpOps, l \in Operands, r \in Operands :
       Parsed(Cmp(op, l, r)) =>
          /\ (TypeOf(l) # TypeOf(r) /\ op \in {"<", "<=", ">", ">="}) =>
                 phase = "done" /\ evalResult = ValEv(VBool(FALSE))
          /\ (l \in IntOperands /\ r \in IntOperands) =>
                 phase = "done" /\ evalResult = ValEv(VBool(IntOrder(op, l.v, r.v)))

\* C22: to_int and to_num of a Str, Object, List or Function give a typed error,
\* neither a number nor an abort of the process: `1 + 'a'` returns an error to the
\* caller of eval.
NoNumberIsTypedError ==
    \A l \in Operands, r \in Operands :
       (Parsed(EAdd(l, r)) /\ {TypeOf(l), TypeOf(r)} \cap {"Str", "List"} # {}) =>
          /\ phase = "done"
          /\ evalResult.k = "err" /\ evalResult.err # "Panic"

\* C23: an identifier that `&` precedes evaluates to what the host's get_option gives
\* for it, the symbol table not being consulted; every other identifier is looked up
\* in the symbol table, an undefined one failing with VariableUndefined.
IdentifierResolution ==
    /\ \A nm \in {TS, GA} :
          Parsed(EOption(nm)) =>
             /\ phase = "done"
             /\ evalResult = IF get_option(nm).ok THEN ValEv(get_option(nm).v)
                              ELSE ErrEv(get_option(nm).err)
    /\ \A nm \in {GA, X, TS} :
          Parsed(EVar(nm)) =>
             /\ phase = "done"
             /\ evalResult = IF Has(variables.global, nm)
                              THEN ValEv(variables.global[nm])
                              ELSE ErrEv("VariableUndefined")

\* the range a prefix stands for
RangeOf(x) ==
    CASE x.kind = "N,M" -> Range(x.n, x.m)
      [] x.kind = "N," -> RangeFrom(x.n)
      [] x.kind = ",M" -> RangeTo(x.n)
      [] x.kind \in {",", "%"} -> Whole
      [] x.kind = "/p/" -> Select(x.pat)
      [] OTHER -> CurrentLine

\* C24: every line is cut, in this order, into range prefix, the longest keyword of
\* letters and digits, an optional bang and the parameter text without its leading
\* blanks: the prefixes `N,M`, `N,`, `,M`, `,` or `%`, none (or a bare number) and
\* `/p/` give Range{N,M}, RangeFrom(N), RangeTo(M), Whole, CurrentLine and Select(p),
\* an escaped `\/` staying in p; `Cmd!` gives the bang and no parameters, `Cmd! some
\* cmd` the bang and the parameters `some cmd`.
LineDecomposes ==
    obs.op = "line" =>
       /\ obs.res.ok /\ obs.res.some
       /\ obs.res.range = RangeOf(obs.prefix)
       /\ obs.res.command = obs.word
       /\ obs.res.bang = obs.bang
       /\ obs.res.params = obs.params
RangedBangLineCut ==
    /\ obs.op = "line"
    /\ obs.text = <<"1", "2", ",", "4", "C", "m", "d", "!", " ", "s", "o", "m", "e", " ",
                    "c", "m", "d">>
    /\ obs.res = Parts(Range(12, 4), <<"C", "m", "d">>, TRUE,
                       <<"s", "o", "m", "e", " ", "c", "m", "d">>)

\* C29: a `return e` that is reached inside a block while a function body is replayed
\* ends the call, which returns the value of e; no later line of the body is executed
ReturnInBlockEndsCall ==
    (phase = "done" /\ script = ReturnInBlock /\ Has(variables.global, GT)) =>
        /\ result = "Ok"
        /\ Has(variables.global, GA) /\ variables.global[GA] = VInt(5)
        /\ ~Has(variables.global, GL)

\* C30: no step of a run changes the deadline that the run began under
DeadlineSetOncePerRun ==
    (hostop = "run" /\ last.cmd # "") => timeout = last.deadline

\* C31: after a `silent <line>` or `unsilent <line>` statement has finished, the last
\* value handed to the host's set_silent is (silence depth > 0)
HostToldSilenceDepth ==
    (hostop = "run" /\ last.cmd \in {"silent", "unsilent"} /\ last.run = "Now"
       /\ ~last.timedout /\ \A i \in 1..Len(stack) : ~stack[i].oneline) =>
       silent = (silence_level > 0)

\* C32: a call of a user function whose replayed body reaches its end without a
\* `return` gives Nil
FunctionEndYieldsNil ==
    (hostop = "eval" /\ phase = "done" /\ script \in FuncScripts
       /\ last.cmd = "<eof>" /\ last.section = "Function") =>
       evalResult = ValEv(VNil)

\* what the arithmetic of the text gives
Arith(o, x, y) == IF o = "+" THEN x + y ELSE x * y

\* C33: a parenthesized sub-expression is reduced to its value before the operator
\* next to it is applied: `(a o1 b) o2 c` and `a o1 (b o2 c)` evaluate to the
\* Integer that the grouping gives
ParenthesesGroup ==
    /\ (obs.op = "eval" /\ obs.shape = "(ab)c") =>
          obs.res = ValEv(VInt(Arith(obs.o2, Arith(obs.o1, obs.a, obs.b), obs.c)))
    /\ (obs.op = "eval" /\ obs.shape = "a(bc)") =>
          obs.res = ValEv(VInt(Arith(obs.o1, obs.a, Arith(obs.o2, obs.b, obs.c))))

\* C34: for every expression text eval returns a value or a fault to its caller,
\* also for a text that no cycle can reduce and for the empty text: it never aborts
EvalReturnsResult ==
    obs.op = "eval" => obs.res.k \in {"val", "err"} /\ obs.res.err # "Panic"

\* C35: the parser of a list name pattern always advances, and `for [a, b] in
\* [[1, 2]]` binds a to Integer(1) and b to Integer(2)
ListPatternBinds ==
    /\ obs.op = "for" => obs.res.k # "Diverges"
    /\ (obs.op = "for" /\ obs.braces /\ obs.closed /\ obs.has /\ obs.sep = <<",", " ">>
          /\ obs.list = <<<<"a">>, <<"b">>>>) =>
          /\ obs.res.k = "Ok"
          /\ obs.iter.binds = <<[name |-> <<"a">>, v |-> VInt(1)],
                                [name |-> <<"b">>, v |-> VInt(2)]>>

\* v is the container at a, or holds it behind at most d containers
RECURSIVE Within(_, _, _, _)
Within(h, v, a, d) ==
    /\ v.ty = "List"
    /\ \/ v.n = a
       \/ d > 0 /\ \E i \in 1..Len(h[v.n]) : Within(h, h[v.n][i], a, d - 1)
\* no list is reachable from itself
Acyclic ==
    \A a \in 1..Len(heap) : \A i \in 1..Len(heap[a]) : ~Within(heap, heap[a][i], a, Len(heap))
\* an insert of an element that is the list or holds it
InsertsItself ==
    /\ obs'.op = "insert" /\ ledger'.n = ledger.n + 1
    /\ Val(obs'.name).ty = "List"
    /\ Within(heap, obs'.val, Val(obs'.name).n, Len(heap))

\* C36: an insert into a List of an element that is that list, or a container that
\* holds it, fails with IllegalArgument and changes no list; no list is ever
\* reachable from itself
NoListHoldsItself ==
    /\ []Acyclic
    /\ [][InsertsItself => obs'.res.err = "IllegalArgument" /\ heap' = heap]_vars
HolderRejected ==
    /\ obs.op = "insert" /\ obs.res.err = "IllegalArgument"
    /\ obs.val.ty = "List" /\ obs.val.n # Val(obs.name).n
    /\ Bound(GB) /\ Val(GB) = Val(obs.name)

\* the step is made by `let x = ..` in execute mode (or follows it with the clock only)
LetOfLocal ==
    /\ hostop' = "run" /\ last'.cmd = "let" /\ last'.run = "Now" /\ ~last'.timedout
    /\ last'.line.name = X /\ last'.line.haseq
\* the scopes other than the local frames
Unframed(ns) == [ns EXCEPT !.local = <<>>]

\* C37: a `let` of an unprefixed lower-case name writes the innermost local frame
\* only: the frames below it and the other scopes keep their bindings, so does a
\* local of that name bound before a for loop whose body assigns it; with no frame
\* the `let` fails with NamespaceNotDefined(Local) and binds nothing
LetWritesInnermostFrame ==
    /\ [][LetOfLocal =>
            /\ Len(variables'.local) = Len(variables.local)
            /\ \A i \in 1..(Len(variables.local) - 1) :
                  variables'.local[i] = variables.local[i]
            /\ Unframed(variables') = Unframed(variables)
            /\ variables.local = <<>> =>
                  variables' = variables /\ result' = "NamespaceNotDefined(Local)"]_vars
    /\ [](script \in NestedForScripts /\ phase = "running" /\ last.cmd = "Test"
            /\ last.line.params = "o" /\ last.run = "Now" /\ fault.err = ""
          => lookup(variables, X).v = VInt(5))
InnerLetKeepsOuter ==
    /\ script \in NestedForScripts /\ last.cmd = "let" /\ last.run = "Now"
    /\ Len(variables.local) = 2
    /\ variables.local[2][X] = VInt(9) /\ variables.local[1][X] = VInt(5)


\* the value bound to name, Nil when the call had no argument for it
Passed(args, i) == IF i <= Len(args) THEN VInt(args[i].v) ELSE VNil
\* the run is over and no deadline cut it short
RanToEnd == hostop = "run" /\ phase = "done" /\ result = "Ok" /\ "TimeOut" \notin fault.all
\* C38: a call binds the parameters by position in a frame of its own (a missing
\* argument is Nil, a surplus one is dropped), and the frame is popped when the
\* call returns, with a value or an error: the caller reads its own parameters
\* after a recursive call, and no frame is left once the outermost call is over.
CallFramePopped ==
    /\ (hostop = "run" /\ phase = "done" /\ script \in CallScripts) =>
          variables.local = <<>>
    /\ \A args \in ArgLists : (RanToEnd /\ script = ParamCall(args)) =>
          /\ lookup(variables, GA).v = Passed(args, 1)
          /\ lookup(variables, GL).v = Passed(args, 2)
    /\ (RanToEnd /\ script = RecursiveCall) =>
          /\ lookup(variables, GB).v = VInt(0)
          /\ lookup(variables, GA).v = VInt(1)
          /\ lookup(variables, GL).v = VInt(2)

\* the bindings after `let g:a = 1` on a fresh context
AfterFirstLet == NsInsert(InitVariables, GA, VInt(1)).ns
LetRunOver == RanToEnd \/ (hostop = "run" /\ phase = "done" /\ result \notin {"Ok", "TimeOut"})
\* C39 as stated: a `let` that fails (a range, a bang, no `=`, a right-hand side that
\* fails to evaluate) leaves every binding of every scope as it was, and so does a
\* `let` that is skipped or captured.
FailedLetChangesNothing ==
    (LetRunOver /\ script \in LetScripts) => variables = AfterFirstLet

\* a line `let` is read before the deadline, and it raises a fault or is read in Skip
\* or capture mode
LetReadInVain ==
    /\ AtLine /\ NextLine.command = "let" /\ now' = now /\ ~TimedOut(timeout, now)
    /\ Top(S).run # "Now" \/ (fault'.err # "" /\ fault' # fault)
\* C39: the `let` arm writes nothing when the line carries a range or a bang, has no
\* `=`, or its right-hand side fails, and nothing in Skip or capture mode: the
\* target keeps its binding; what a function called by the right-hand side wrote
\* before it failed stays written.
FailedLetWritesNothing ==
    /\ [][LetReadInVain => variables' = variables]_vars
    /\ []((LetRunOver /\ script \in LetScripts \ {LetCallFails}) => variables = AfterFirstLet)
    /\ []((LetRunOver /\ script = LetCallFails) =>
             /\ result = "CommandUndefined"
             /\ variables = NsInsert(AfterFirstLet, GB, VInt(1)).ns)
LetFailedAfterCall ==
    /\ LetRunOver /\ script = LetCallFails /\ result = "CommandUndefined"
    /\ lookup(variables, GA).v = VInt(1) /\ lookup(variables, GB).v = VInt(1)

\* C40: `==` and `!=` on a List and an alias of it (the same container, as in
\* `g:a == g:a` after `let g:a = [1]`) return, and say the two are equal: no lock
\* is asked for on a container that the comparison holds.
AliasComparesEqual ==
    (obs.op \in {"==", "!="} /\ obs.val.ty = "List" /\ obs.val = Val(obs.name)) =>
       obs.res = [ok |-> TRUE, err |-> "", v |-> VBool(obs.op = "==")]

=============================================================================
